---- MODULE Spec2Model ----
(***************************************************************************)
(* A model of the UCI front end (uci.cpp, ucioption.cpp) and of the        *)
(* transposition-table entry (tt.h) of Stockfish.                          *)
(*                                                                         *)
(* Strings are TLA+ strings, i.e. sequences of characters: Len, \o, Head,  *)
(* Tail and SubSeq act on them character by character, so the token        *)
(* reader below does what std::istringstream does on the command line.     *)
(***************************************************************************)
EXTENDS Integers, Sequences, FiniteSets, TLC

VARIABLES
    loop,          \* uci_main_loop: "running", "exited", or "hung" inside go()
    RootPosition,  \* the root position of uci.cpp
    options,       \* the options map of ucioption.cpp: name -> Option
    command,       \* the line handed to handle_command by the last step
    events,        \* what the last step printed and which functions it called
    pushed,        \* push_button("Clear Hash") was called since the last poll
    valueSet,      \* set_option_value("Clear Hash", v) was called by the parser since the last poll
    cxx11,         \* the build: TRUE for C++11 num_get rules, FALSE for C++98
    suite,         \* which set of input lines this run draws from
    tte,           \* the TTEntry under test and the arguments it was built from
    TT,            \* the TranspositionTable: its generation and the entry last stored
    material,      \* the MaterialInfoTable, the position looked up and the entry returned
    fileTest       \* the pawn bitboard and file asked about, and what each function returned

vars == <<loop, RootPosition, options, command, events, pushed, valueSet,
          cxx11, suite, tte, TT, material, fileTest>>

-----------------------------------------------------------------------------
(* Characters and std::istringstream                                       *)

\* The i-th character of s, as a string of length one.
CharAt(s, i) == SubSeq(s, i, i)

\* isspace() for the characters a command line holds.
IsSpace(c) == c \in {" ", "\t"}

DigitChars == <<"0", "1", "2", "3", "4", "5", "6", "7", "8", "9">>

IsDigit(c) == \E i \in 1..10 : DigitChars[i] = c

DigitVal(c) == (CHOOSE i \in 1..10 : DigitChars[i] = c) - 1

\* The largest value of an int.
INT_MAX == 2147483647

\* First index >= p of s that holds no white space (Len(s) + 1 if none).
RECURSIVE SkipWs(_, _)
SkipWs(s, p) ==
    IF p > Len(s) THEN p
    ELSE IF IsSpace(CharAt(s, p)) THEN SkipWs(s, p + 1) ELSE p

\* First index >= p of s that holds white space (Len(s) + 1 if none).
RECURSIVE WordEnd(_, _)
WordEnd(s, p) ==
    IF p > Len(s) THEN p
    ELSE IF IsSpace(CharAt(s, p)) THEN p ELSE WordEnd(s, p + 1)

\* First index >= p of s that holds no digit (Len(s) + 1 if none).
RECURSIVE DigitsEnd(_, _)
DigitsEnd(s, p) ==
    IF p > Len(s) THEN p
    ELSE IF IsDigit(CharAt(s, p)) THEN DigitsEnd(s, p + 1) ELSE p

\* UCIInputParser uip(command): an input string stream on a line.
UCIInputParser(s) == [buf |-> s, pos |-> 1, eof |-> FALSE, fail |-> FALSE]

\* The sentry of a formatted input function: a stream that is not good()
\* gets failbit; skipping white space up to the end sets eofbit and failbit.
Sentry(uip) ==
    LET skipped(p) ==
            IF p > Len(uip.buf)
            THEN [ok |-> FALSE,
                  uip |-> [uip EXCEPT !.pos = p, !.eof = TRUE, !.fail = TRUE]]
            ELSE [ok |-> TRUE, uip |-> [uip EXCEPT !.pos = p]]
    IN  IF uip.eof \/ uip.fail
        THEN [ok |-> FALSE, uip |-> [uip EXCEPT !.fail = TRUE]]
        ELSE skipped(SkipWs(uip.buf, uip.pos))

\* uip >> token for a std::string: when the sentry fails the string keeps
\* its old value; otherwise it becomes the next word, and reading up to the
\* end of the buffer sets eofbit.
ExtractString(uip, token) ==
    LET word(u, e) ==
            [uip |-> [u EXCEPT !.pos = e, !.eof = (e > Len(u.buf))],
             val |-> SubSeq(u.buf, u.pos, e - 1)]
        read(s) ==
            IF ~s.ok THEN [uip |-> s.uip, val |-> token]
            ELSE word(s.uip, WordEnd(s.uip.buf, s.uip.pos))
    IN  read(Sentry(uip))

\* The value of the digit string s[p..e-1], saturating at INT_MAX; over is
\* TRUE when the value does not fit an int.
RECURSIVE Accumulate(_, _, _, _)
Accumulate(s, p, e, acc) ==
    IF p >= e THEN [val |-> acc, over |-> FALSE]
    ELSE LET add(d) ==
                 IF acc > (INT_MAX - d) \div 10
                 THEN [val |-> INT_MAX, over |-> TRUE]
                 ELSE Accumulate(s, p + 1, e, acc * 10 + d)
         IN  add(DigitVal(CharAt(s, p)))

\* uip >> n for an int n (std::num_get): an optional sign and then digits.
\* No digit: failbit, and the value is 0 (C++11) or kept (C++98). A value
\* that does not fit: failbit, and the value is the nearest limit (C++11) or
\* kept (C++98). Reading up to the end of the buffer sets eofbit.
ExtractInt(uip, old, isCxx11) ==
    LET \* b: the buffer; neg: a minus sign was read; d0, e: the digits are
        \* b[d0..e-1]; acc: their value; u: the stream after the digits.
        number(b, neg, d0, e, acc, u) ==
            IF e = d0
            THEN [uip |-> [u EXCEPT !.fail = TRUE],
                  val |-> IF isCxx11 THEN 0 ELSE old]
            ELSE IF acc.over
            THEN [uip |-> [u EXCEPT !.fail = TRUE],
                  val |-> IF ~isCxx11 THEN old
                          ELSE IF neg THEN (0 - INT_MAX) - 1 ELSE INT_MAX]
            ELSE [uip |-> u, val |-> IF neg THEN 0 - acc.val ELSE acc.val]
        digits(v, neg, d0, e) ==
            number(v.buf, neg, d0, e, Accumulate(v.buf, d0, e, 0),
                   [v EXCEPT !.pos = e, !.eof = (e > Len(v.buf))])
        signed(v, neg, d0) == digits(v, neg, d0, DigitsEnd(v.buf, d0))
        read(s) ==
            IF ~s.ok THEN [uip |-> s.uip, val |-> old]
            ELSE signed(s.uip, CharAt(s.uip.buf, s.uip.pos) = "-",
                        IF CharAt(s.uip.buf, s.uip.pos) \in {"+", "-"}
                        THEN s.uip.pos + 1 ELSE s.uip.pos)
    IN  read(Sentry(uip))

\* uip >> b for a bool without boolalpha: the text is read as a number; 0 is
\* false and 1 is true; any other number sets failbit and stores true
\* (C++11) or keeps the old value (C++98); no number keeps/stores false.
ExtractBool(uip, old, isCxx11) ==
    LET read(r) ==
            IF r.uip.fail /\ r.val = 0
            THEN [uip |-> r.uip, val |-> IF isCxx11 THEN FALSE ELSE old]
            ELSE IF r.val = 0 THEN [uip |-> r.uip, val |-> FALSE]
            ELSE IF r.val = 1 THEN [uip |-> r.uip, val |-> TRUE]
            ELSE [uip |-> [r.uip EXCEPT !.fail = TRUE],
                  val |-> IF isCxx11 THEN TRUE ELSE old]
    IN  read(ExtractInt(uip, 0, TRUE))

\* getline(uip, token): no white space is skipped; a stream that is not
\* good() gets failbit and the string keeps its old value; otherwise the
\* string becomes the rest of the line (a command line holds no newline).
GetLine(uip, token) ==
    IF uip.eof \/ uip.fail
    THEN [uip |-> [uip EXCEPT !.fail = TRUE], val |-> token]
    ELSE [uip |-> [uip EXCEPT !.pos = Len(uip.buf) + 1, !.eof = TRUE,
                              !.fail = (uip.pos > Len(uip.buf))],
          val |-> SubSeq(uip.buf, uip.pos, Len(uip.buf))]

\* stringify(v) for an int v >= 0: its decimal text.
RECURSIVE stringify(_)
stringify(v) ==
    IF v < 10 THEN DigitChars[v + 1]
    ELSE stringify(v \div 10) \o DigitChars[(v % 10) + 1]

-----------------------------------------------------------------------------
(* ucioption.cpp: the option registry                                      *)

\* The constructors of Option. size is options.size() when the option is
\* constructed; it becomes the option's idx.
OptionString(def, t, size) ==
    [name |-> "", defaultValue |-> def, currentValue |-> def, type |-> t,
     idx |-> size, minValue |-> 0, maxValue |-> 0, comboValues |-> <<>>]

OptionBool(def, t, size) ==
    [name |-> "", defaultValue |-> IF def THEN "1" ELSE "0",
     currentValue |-> IF def THEN "1" ELSE "0", type |-> t,
     idx |-> size, minValue |-> 0, maxValue |-> 0, comboValues |-> <<>>]

\* The constructor of a spin option with idx left at 0.
OptionInt_unnumbered(def, minv, maxv, size) ==
    [name |-> "", defaultValue |-> stringify(def), currentValue |-> stringify(def),
     type |-> "SPIN", idx |-> 0, minValue |-> minv, maxValue |-> maxv,
     comboValues |-> <<>>]

OptionInt(def, minv, maxv, size) ==
    [name |-> "", defaultValue |-> stringify(def), currentValue |-> stringify(def),
     type |-> "SPIN", idx |-> size, minValue |-> minv, maxValue |-> maxv,
     comboValues |-> <<>>]

\* The assignments of load_defaults, in the order they are written.
Defaults ==
    <<
       [n |-> "Use Search Log", k |-> "bool", b |-> FALSE, t |-> "CHECK"],
       [n |-> "Search Log Filename", k |-> "string", s |-> "SearchLog.txt", t |-> "STRING"],
       [n |-> "Book File", k |-> "string", s |-> "book.bin", t |-> "STRING"],
       [n |-> "Mobility (Middle Game)", k |-> "int", v |-> 100, lo |-> 0, hi |-> 200],
       [n |-> "Mobility (Endgame)", k |-> "int", v |-> 100, lo |-> 0, hi |-> 200],
       [n |-> "Pawn Structure (Middle Game)", k |-> "int", v |-> 100, lo |-> 0, hi |-> 200],
       [n |-> "Pawn Structure (Endgame)", k |-> "int", v |-> 100, lo |-> 0, hi |-> 200],
       [n |-> "Passed Pawns (Middle Game)", k |-> "int", v |-> 100, lo |-> 0, hi |-> 200],
       [n |-> "Passed Pawns (Endgame)", k |-> "int", v |-> 100, lo |-> 0, hi |-> 200],
       [n |-> "Space", k |-> "int", v |-> 100, lo |-> 0, hi |-> 200],
       [n |-> "Aggressiveness", k |-> "int", v |-> 100, lo |-> 0, hi |-> 200],
       [n |-> "Cowardice", k |-> "int", v |-> 100, lo |-> 0, hi |-> 200],
       [n |-> "King Safety Curve", k |-> "string", s |-> "Quadratic", t |-> "COMBO"],
       [n |-> "King Safety Coefficient", k |-> "int", v |-> 40, lo |-> 1, hi |-> 100],
       [n |-> "King Safety X Intercept", k |-> "int", v |-> 0, lo |-> 0, hi |-> 20],
       [n |-> "King Safety Max Slope", k |-> "int", v |-> 30, lo |-> 10, hi |-> 100],
       [n |-> "King Safety Max Value", k |-> "int", v |-> 500, lo |-> 100, hi |-> 1000],
       [n |-> "Queen Contact Check Bonus", k |-> "int", v |-> 3, lo |-> 0, hi |-> 8],
       [n |-> "Queen Check Bonus", k |-> "int", v |-> 2, lo |-> 0, hi |-> 4],
       [n |-> "Rook Check Bonus", k |-> "int", v |-> 1, lo |-> 0, hi |-> 4],
       [n |-> "Bishop Check Bonus", k |-> "int", v |-> 1, lo |-> 0, hi |-> 4],
       [n |-> "Knight Check Bonus", k |-> "int", v |-> 1, lo |-> 0, hi |-> 4],
       [n |-> "Discovered Check Bonus", k |-> "int", v |-> 3, lo |-> 0, hi |-> 8],
       [n |-> "Mate Threat Bonus", k |-> "int", v |-> 3, lo |-> 0, hi |-> 8],
       [n |-> "Check Extension (PV nodes)", k |-> "int", v |-> 2, lo |-> 0, hi |-> 2],
       [n |-> "Check Extension (non-PV nodes)", k |-> "int", v |-> 1, lo |-> 0, hi |-> 2],
       [n |-> "Single Reply Extension (PV nodes)", k |-> "int", v |-> 2, lo |-> 0, hi |-> 2],
       [n |-> "Single Reply Extension (non-PV nodes)", k |-> "int", v |-> 2, lo |-> 0, hi |-> 2],
       [n |-> "Mate Threat Extension (PV nodes)", k |-> "int", v |-> 0, lo |-> 0, hi |-> 2],
       [n |-> "Mate Threat Extension (non-PV nodes)", k |-> "int", v |-> 0, lo |-> 0, hi |-> 2],
       [n |-> "Pawn Push to 7th Extension (PV nodes)", k |-> "int", v |-> 1, lo |-> 0, hi |-> 2],
       [n |-> "Pawn Push to 7th Extension (non-PV nodes)", k |-> "int", v |-> 1, lo |-> 0, hi |-> 2],
       [n |-> "Passed Pawn Extension (PV nodes)", k |-> "int", v |-> 1, lo |-> 0, hi |-> 2],
       [n |-> "Passed Pawn Extension (non-PV nodes)", k |-> "int", v |-> 0, lo |-> 0, hi |-> 2],
       [n |-> "Pawn Endgame Extension (PV nodes)", k |-> "int", v |-> 2, lo |-> 0, hi |-> 2],
       [n |-> "Pawn Endgame Extension (non-PV nodes)", k |-> "int", v |-> 2, lo |-> 0, hi |-> 2],
       [n |-> "Full Depth Moves (PV nodes)", k |-> "int", v |-> 14, lo |-> 1, hi |-> 100],
       [n |-> "Full Depth Moves (non-PV nodes)", k |-> "int", v |-> 3, lo |-> 1, hi |-> 100],
       [n |-> "Threat Depth", k |-> "int", v |-> 5, lo |-> 0, hi |-> 100],
       [n |-> "LSN filtering", k |-> "bool", b |-> FALSE, t |-> "CHECK"],
       [n |-> "LSN Time Margin (sec)", k |-> "int", v |-> 4, lo |-> 1, hi |-> 10],
       [n |-> "LSN Value Margin", k |-> "int", v |-> 200, lo |-> 100, hi |-> 600],
       [n |-> "Randomness", k |-> "int", v |-> 0, lo |-> 0, hi |-> 10],
       [n |-> "Minimum Split Depth", k |-> "int", v |-> 4, lo |-> 4, hi |-> 7],
       [n |-> "Maximum Number of Threads per Split Point", k |-> "int", v |-> 5, lo |-> 4, hi |-> 8],
       [n |-> "Threads", k |-> "int", v |-> 1, lo |-> 1, hi |-> 8],
       [n |-> "Hash", k |-> "int", v |-> 32, lo |-> 4, hi |-> 4096],
       [n |-> "Clear Hash", k |-> "bool", b |-> FALSE, t |-> "BUTTON"],
       [n |-> "Ponder", k |-> "bool", b |-> TRUE, t |-> "CHECK"],
       [n |-> "OwnBook", k |-> "bool", b |-> TRUE, t |-> "CHECK"],
       [n |-> "MultiPV", k |-> "int", v |-> 1, lo |-> 1, hi |-> 500],
       [n |-> "UCI_ShowCurrLine", k |-> "bool", b |-> FALSE, t |-> "CHECK"],
       [n |-> "UCI_Chess960", k |-> "bool", b |-> FALSE, t |-> "CHECK"]
    >>

\* load_defaults: the options map with the hard coded names and defaults.
\* The i-th assignment, o[name] = Option(...), finds i - 1 options in the
\* map. The language leaves open which side of the assignment is evaluated
\* first, and the compiler settles it for the build: with o[name] first
\* (lhsFirst) the constructor reads options.size() after the name was
\* inserted and idx is i, else idx is i - 1. The two push_back calls fill
\* the combo values; the closing loop gives each option its name.
load_defaults(lhsFirst) ==
    [n \in {Defaults[i].n : i \in 1..Len(Defaults)} |->
        LET named(o) ==
                [o EXCEPT !.name = n,
                          !.comboValues = IF n = "King Safety Curve"
                                          THEN <<"Quadratic", "Linear">> ELSE @]
            assigned(e, size) ==
                named(IF e.k = "bool" THEN OptionBool(e.b, e.t, size)
                      ELSE IF e.k = "string" THEN OptionString(e.s, e.t, size)
                      ELSE OptionInt(e.v, e.lo, e.hi, size))
            at(i) == assigned(Defaults[i], IF lhsFirst THEN i ELSE i - 1)
        IN  at(CHOOSE j \in 1..Len(Defaults) : Defaults[j].n = n)]

Min(a, b) == IF a < b THEN a ELSE b

\* init_uci_options with one thread for each core, up to the 8 the option
\* allows.
init_uci_options_all_cores(cpus, lhsFirst) ==
    LET split(o1) ==
            IF cpus > 4
            THEN [o1 EXCEPT !["Minimum Split Depth"].defaultValue = "6",
                            !["Minimum Split Depth"].currentValue = "6"]
            ELSE o1
    IN  split([load_defaults(lhsFirst) EXCEPT
                  !["Threads"].defaultValue = stringify(Min(cpus, 8)),
                  !["Threads"].currentValue = stringify(Min(cpus, 8))])

\* init_uci_options on a machine with cpus cores.
init_uci_options(cpus, lhsFirst) ==
    LET split(o1) ==
            IF cpus > 4
            THEN [o1 EXCEPT !["Minimum Split Depth"].defaultValue = "6",
                            !["Minimum Split Depth"].currentValue = "6"]
            ELSE o1
    IN  split([load_defaults(lhsFirst) EXCEPT
                  !["Threads"].defaultValue = stringify(Min(cpus, 7)),
                  !["Threads"].currentValue = stringify(Min(cpus, 7))])

\* get_option_value<int>, <bool> and <std::string>: T() for an unknown name,
\* else what operator>> reads from the current value.
get_option_value_int(opts, optionName, isCxx11) ==
    IF optionName \notin DOMAIN opts THEN 0
    ELSE ExtractInt(UCIInputParser(opts[optionName].currentValue), 0, isCxx11).val

get_option_value_bool(opts, optionName, isCxx11) ==
    IF optionName \notin DOMAIN opts THEN FALSE
    ELSE ExtractBool(UCIInputParser(opts[optionName].currentValue), FALSE, isCxx11).val

get_option_value_string(opts, optionName) ==
    IF optionName \notin DOMAIN opts THEN ""
    ELSE ExtractString(UCIInputParser(opts[optionName].currentValue), "").val

\* The value set_option_value stores: "true" and "false" become "1" and "0".
StoredValue(value) ==
    IF value = "true" THEN "1" ELSE IF value = "false" THEN "0" ELSE value

\* set_option_value leaving a spin option alone when the value reads as an
\* int outside the option's [minValue, maxValue].
set_option_value_checked(opts, name, value) ==
    LET legal(x) == opts[name].minValue <= x /\ x <= opts[name].maxValue
    IN  IF name \in DOMAIN opts
        THEN IF opts[name].type = "SPIN"
                /\ ~legal(ExtractInt(UCIInputParser(StoredValue(value)), 0, TRUE).val)
             THEN [options |-> opts, events |-> <<>>]
             ELSE [options |-> [opts EXCEPT ![name].currentValue = StoredValue(value)],
                   events |-> <<>>]
        ELSE [options |-> opts, events |-> << <<"out", "No such option: " \o name>> >>]

\* set_option_value storing through options[name] without the look for the
\* name: an unknown name gets an entry.
set_option_value_inserting(opts, name, value) ==
    IF name \in DOMAIN opts
    THEN [options |-> [opts EXCEPT ![name].currentValue = StoredValue(value)],
          events |-> <<>>]
    ELSE [options |->
              (name :> [OptionString("", "STRING", Cardinality(DOMAIN opts))
                            EXCEPT !.currentValue = StoredValue(value)]) @@ opts,
          events |-> <<>>]

\* set_option_value: the new options map and what is printed.
set_option_value(opts, name, value) ==
    IF name \in DOMAIN opts
    THEN [options |-> [opts EXCEPT ![name].currentValue = StoredValue(value)],
          events |-> <<>>]
    ELSE [options |-> opts, events |-> << <<"out", "No such option: " \o name>> >>]

\* push_button storing the value as it arrives from the command parser,
\* after a blank.
push_button_blank(opts, buttonName) == set_option_value(opts, buttonName, " true")

\* push_button
push_button(opts, buttonName) == set_option_value(opts, buttonName, "true")

\* button_was_pressed that reports the button and leaves it pressed.
button_was_pressed_held(opts, buttonName, isCxx11) ==
    [ret |-> get_option_value_bool(opts, buttonName, isCxx11), options |-> opts]

\* button_was_pressed: the value returned and the new options map.
button_was_pressed(opts, buttonName, isCxx11) ==
    IF ~get_option_value_bool(opts, buttonName, isCxx11)
    THEN [ret |-> FALSE, options |-> opts]
    ELSE [ret |-> TRUE, options |-> set_option_value(opts, buttonName, "false").options]

\* std::sort(vec.begin(), vec.end()) with operator<, which compares idx: the
\* options in increasing idx order. IdxPairs holds the idx and the name of
\* each option, Ranked replaces the idx by the number of options with a
\* smaller one, and ByRank lists the options by that number.
IdxPairs(opts) == {<<opts[n].idx, n>> : n \in DOMAIN opts}

Ranked(pairs) == {<<Cardinality({q \in pairs : q[1] < p[1]}), p[2]>> : p \in pairs}

ByRank(opts, ranked) ==
    [i \in 1..Cardinality(ranked) |-> opts[(CHOOSE r \in ranked : r[1] = i - 1)[2]]]

SortByIdx(opts) == ByRank(opts, Ranked(IdxPairs(opts)))

optionTypeName(t) ==
    CASE t = "SPIN" -> "spin" [] t = "COMBO" -> "combo" [] t = "CHECK" -> "check"
      [] t = "STRING" -> "string" [] t = "BUTTON" -> "button"

RECURSIVE ComboVars(_)
ComboVars(vals) ==
    IF vals = <<>> THEN "" ELSE " var " \o Head(vals) \o ComboVars(Tail(vals))

\* The line print_uci_options prints for one option.
OptionLine(o) ==
    LET head == "option name " \o o.name \o " type " \o optionTypeName(o.type)
        def  == IF o.type = "CHECK"
                THEN " default " \o (IF o.defaultValue = "1" THEN "true" ELSE "false")
                ELSE " default " \o o.defaultValue
        rest == IF o.type = "SPIN"
                THEN " min " \o stringify(o.minValue) \o " max " \o stringify(o.maxValue)
                ELSE IF o.type = "COMBO" THEN ComboVars(o.comboValues) ELSE ""
    IN  IF o.type = "BUTTON" THEN head ELSE head \o def \o rest

\* print_uci_options with the buttons skipped before their line is printed.
print_uci_options_no_buttons(opts) ==
    LET kept(vec) == {i \in 1..Len(vec) : vec[i].type # "BUTTON"}
        lines(vec) ==
            << <<"out", "">> >> \o
            [j \in 1..Cardinality(kept(vec)) |->
                <<"out", OptionLine(vec[CHOOSE i \in kept(vec) :
                                         Cardinality({k \in kept(vec) : k < i}) = j - 1])>>]
    IN  lines(SortByIdx(opts))

\* print_uci_options: one line per option of the map, in idx order. Each
\* line is printed after a newline, so an empty line comes first.
print_uci_options(opts) ==
    LET lines(vec) ==
            << <<"out", "">> >> \o [i \in 1..Len(vec) |-> <<"out", OptionLine(vec[i])>>]
    IN  lines(SortByIdx(opts))

-----------------------------------------------------------------------------
(* position.h: the Position operations uci.cpp calls. Their bodies are in  *)
(* position.cpp and move.cpp; the position is kept as the FEN it was       *)
(* loaded from and the moves made on it since.                             *)

\* FEN string for the initial position
StartPosition == "rnbqkbnr/pppppppp/8/8/8/8/PPPPPPPP/RNBQKBNR w KQkq - 0 1"

\* King and pawn against king, White to move.
KPKPosition == "4k3/8/8/8/8/8/4P3/4K3 w - - 0 1"

MOVE_NONE == "MOVE_NONE"

\* The white-space separated fields of s.
RECURSIVE Fields(_, _)
Fields(s, p) ==
    LET word(b, e) == <<SubSeq(s, b, e - 1)>> \o Fields(s, e)
        from(b) == IF b > Len(s) THEN <<>> ELSE word(b, WordEnd(s, b))
    IN  from(SkipWs(s, p))

\* Board, side to move, castling rights and en passant square of a FEN: the
\* fields from_fen reads. A string with fewer fields stands for itself.
FenCore(s) ==
    LET core(f) ==
            IF Len(f) < 4 THEN s
            ELSE f[1] \o " " \o f[2] \o " " \o f[3] \o " " \o f[4]
    IN  core(Fields(s, 1))

\* from_fen
from_fen(fen) ==
    [fen |-> FenCore(fen), moves |-> <<>>, rule50 |-> 0, gamePly |-> 0,
     flipped |-> FALSE]

\* The legal moves this model knows: per loaded position, the moves of White
\* and of Black, in coordinate notation. Every other string is no legal move.
StartCore == FenCore(StartPosition)

KPKCore == FenCore(KPKPosition)

KnownMoves(fen, white) ==
    IF fen = StartCore
    THEN (IF white THEN {"e2e4", "g1f3"} ELSE {"e7e5", "g8f6"})
    ELSE IF fen = KPKCore
    THEN (IF white THEN {"e2e4", "e1d1"} ELSE {"e8d8"})
    ELSE {}

\* Moves of a pawn: they reset the 50 move counter.
PawnMoves == {"e2e4", "e7e5"}

\* A coordinate move seen from the other side of the board: rank r becomes
\* rank 9 - r.
Mirror(m) ==
    IF Len(m) = 4 /\ IsDigit(CharAt(m, 2)) /\ IsDigit(CharAt(m, 4))
    THEN CharAt(m, 1) \o stringify(9 - DigitVal(CharAt(m, 2)))
         \o CharAt(m, 3) \o stringify(9 - DigitVal(CharAt(m, 4)))
    ELSE m

\* The move in the frame of the position as it was loaded.
Unflipped(pos, m) == IF pos.flipped THEN Mirror(m) ELSE m

Played(pos) == {pos.moves[i] : i \in 1..Len(pos.moves)}

\* Both loaded positions have White to move.
WhiteToMove(pos) == Len(pos.moves) % 2 = 0

\* How many times the move m was made.
Times(pos, m) == Cardinality({i \in 1..Len(pos.moves) : pos.moves[i] = m})

\* The move that takes the piece back.
Reverse(m) == IF Len(m) = 4 THEN SubSeq(m, 3, 4) \o SubSeq(m, 1, 2) ELSE m

\* The piece of the known move m stands on the square it started from: it
\* went back as often as it left.
AtHome(pos, m) == Times(pos, m) = Times(pos, Reverse(m))

\* A move is legal when it is a known move of the side to move whose piece
\* stands on its square, or the way back of a known move of a knight or a
\* king that has left; nothing is legal once a none move was made.
IsLegal(pos, str) ==
    /\ MOVE_NONE \notin Played(pos)
    /\ \/ /\ Unflipped(pos, str) \in KnownMoves(pos.fen, WhiteToMove(pos))
          /\ AtHome(pos, Unflipped(pos, str))
       \/ /\ Reverse(Unflipped(pos, str)) \in
                KnownMoves(pos.fen, WhiteToMove(pos)) \ PawnMoves
          /\ ~AtHome(pos, Unflipped(pos, str))

\* move_from_string: the legal move written str, or MOVE_NONE.
move_from_string(pos, str) == IF IsLegal(pos, str) THEN str ELSE MOVE_NONE

\* do_move: the move is made, the ply counter goes up and the 50 move
\* counter is reset by a pawn move.
do_move(pos, m) ==
    [pos EXCEPT !.moves = Append(@, Unflipped(pos, m)),
                !.rule50 = IF Unflipped(pos, m) \in PawnMoves THEN 0 ELSE @ + 1,
                !.gamePly = @ + 1]

rule_50_counter(pos) == pos.rule50

reset_game_ply(pos) == [pos EXCEPT !.gamePly = 0]

\* flipped_copy: the position with the colours swapped.
flipped_copy(pos) == [pos EXCEPT !.flipped = ~@]

-----------------------------------------------------------------------------
(* uci.cpp                                                                 *)

\* set_position, the loop that collects the FEN: each token read, "moves"
\* included, is appended to fen with a space.
RECURSIVE FenLoop(_, _, _)
FenLoop(uip, token, fen) ==
    LET read(r) == FenLoop(r.uip, r.val, fen \o r.val \o " ")
    IN  IF token # "moves" /\ ~uip.eof
        THEN read(ExtractString(uip, token))
        ELSE [uip |-> uip, token |-> token, fen |-> fen]

\* set_position, the loop over the moves: each round reads a token, turns it
\* into a move and makes it.
RECURSIVE MovesLoop(_, _, _, _)
MovesLoop(uip, token, pos, evs) ==
    LET made(r, move, p1) ==
            MovesLoop(r.uip, r.val,
                      IF rule_50_counter(p1) = 0 THEN reset_game_ply(p1) ELSE p1,
                      Append(evs, <<"call", "do_move", move>>))
        parsed(r, move) == made(r, move, do_move(pos, move))
        read(r) == parsed(r, move_from_string(pos, r.val))
    IN  IF uip.eof THEN [root |-> pos, events |-> evs]
        ELSE read(ExtractString(uip, token))

\* set_position: the new root position and the calls made.
set_position(uip0, root) ==
    LET moves(ld, t2) ==
            IF t2.val = "moves"
            THEN MovesLoop(t2.uip, t2.val, ld.root, ld.events)
            ELSE [root |-> ld.root, events |-> ld.events]
        loaded(ld) ==
            IF ld.uip.eof THEN [root |-> ld.root, events |-> ld.events]
            ELSE moves(ld, IF ld.token # "moves" THEN ExtractString(ld.uip, ld.token)
                           ELSE [uip |-> ld.uip, val |-> ld.token])
        fen(f) ==
            [uip |-> f.uip, token |-> f.token, root |-> from_fen(f.fen),
             events |-> << <<"call", "from_fen", f.fen>> >>]
        first(t1) ==
            loaded(IF t1.val = "startpos"
                   THEN [uip |-> t1.uip, token |-> t1.val,
                         root |-> from_fen(StartPosition),
                         events |-> << <<"call", "from_fen", StartPosition>> >>]
                   ELSE IF t1.val = "fen"
                   THEN fen(FenLoop(t1.uip, t1.val, ""))
                   ELSE [uip |-> t1.uip, token |-> t1.val, root |-> root,
                         events |-> <<>>])
    IN  first(ExtractString(uip0, ""))

\* The name loop of set_option with the tokens appended without the space.
RECURSIVE NameLoop_unspaced(_, _, _)
NameLoop_unspaced(uip, token, name) ==
    LET read(r) ==
            IF r.val = "value" THEN [uip |-> r.uip, token |-> r.val, name |-> name]
            ELSE NameLoop_unspaced(r.uip, r.val, name \o r.val)
    IN  IF uip.eof THEN [uip |-> uip, token |-> token, name |-> name]
        ELSE read(ExtractString(uip, token))

\* set_option, the loop that rebuilds the name: tokens up to "value" are
\* appended to name, each after a space.
RECURSIVE NameLoop(_, _, _)
NameLoop(uip, token, name) ==
    LET read(r) ==
            IF r.val = "value" THEN [uip |-> r.uip, token |-> r.val, name |-> name]
            ELSE NameLoop(r.uip, r.val, name \o " " \o r.val)
    IN  IF uip.eof THEN [uip |-> uip, token |-> token, name |-> name]
        ELSE read(ExtractString(uip, token))

\* set_option: the new options map, the calls made and what is printed.
set_option(uip0, opts) ==
    LET stored(l, v, s) ==
            [options |-> s.options,
             events |-> << <<"call", "set_option_value", l.name, v.val>> >> \o s.events]
        value(l, v) == stored(l, v, set_option_value(opts, l.name, v.val))
        pushed_(l, s) ==
            [options |-> s.options,
             events |-> << <<"call", "push_button", l.name>> >> \o s.events]
        named(l) ==
            IF l.token = "value" THEN value(l, GetLine(l.uip, l.token))
            ELSE pushed_(l, push_button(opts, l.name))
        name(t1, n1) == named(NameLoop(n1.uip, t1.val, n1.val))
        first(t1) ==
            IF t1.val # "name" THEN [options |-> opts, events |-> <<>>]
            ELSE name(t1, ExtractString(t1.uip, ""))
    IN  first(ExtractString(uip0, ""))

\* go, the loop over the moves after "searchmoves".
RECURSIVE SearchMovesLoop(_, _, _, _)
SearchMovesLoop(uip, token, root, moves) ==
    LET read(r) ==
            SearchMovesLoop(r.uip, r.val, root,
                            Append(moves, move_from_string(root, r.val)))
    IN  IF uip.eof THEN [uip |-> uip, token |-> token, moves |-> moves]
        ELSE read(ExtractString(uip, token))

\* go, the loop over the tokens. A stream with failbit and without eofbit
\* reads nothing more and never reaches eof(): the loop does not end.
\* number(t, n, field): the round that read the token t and then the int n
\* (its stream and its value) for the named parameter.
RECURSIVE GoLoop(_, _, _, _, _)
GoLoop(uip, token, root, p, isCxx11) ==
    LET number(t, n, field) ==
            GoLoop(n.uip, t, root,
                   CASE field = "wtime" -> [p EXCEPT !.time[1] = n.val]
                     [] field = "btime" -> [p EXCEPT !.time[2] = n.val]
                     [] field = "winc" -> [p EXCEPT !.inc[1] = n.val]
                     [] field = "binc" -> [p EXCEPT !.inc[2] = n.val]
                     [] field = "movestogo" -> [p EXCEPT !.movesToGo = n.val]
                     [] field = "depth" -> [p EXCEPT !.depth = n.val]
                     [] field = "nodes" -> [p EXCEPT !.nodes = n.val]
                     [] field = "movetime" -> [p EXCEPT !.moveTime = n.val],
                   isCxx11)
        old(t) ==
            CASE t = "wtime" -> p.time[1] [] t = "btime" -> p.time[2]
              [] t = "winc" -> p.inc[1] [] t = "binc" -> p.inc[2]
              [] t = "movestogo" -> p.movesToGo [] t = "depth" -> p.depth
              [] t = "nodes" -> p.nodes [] t = "movetime" -> p.moveTime
        searchmoves(s) ==
            GoLoop(s.uip, s.token, root, [p EXCEPT !.searchMoves = s.moves], isCxx11)
        read(r) ==
            IF r.val = "infinite"
            THEN GoLoop(r.uip, r.val, root, [p EXCEPT !.infinite = TRUE], isCxx11)
            ELSE IF r.val = "ponder"
            THEN GoLoop(r.uip, r.val, root, [p EXCEPT !.ponder = TRUE], isCxx11)
            ELSE IF r.val \in {"wtime", "btime", "winc", "binc", "movestogo", "depth",
                               "nodes", "movetime"}
            THEN number(r.val, ExtractInt(r.uip, old(r.val), isCxx11), r.val)
            ELSE IF r.val = "searchmoves"
            THEN searchmoves(SearchMovesLoop(r.uip, r.val, root, <<>>))
            ELSE GoLoop(r.uip, r.val, root, p, isCxx11)
    IN  IF uip.eof THEN [hung |-> FALSE, p |-> p]
        ELSE IF uip.fail THEN [hung |-> TRUE, p |-> p]
        ELSE read(ExtractString(uip, token))

\* The parameters of think() before the tokens of go are read.
GoDefaults ==
    [time |-> <<0, 0>>, inc |-> <<0, 0>>, movesToGo |-> 0, depth |-> 0,
     nodes |-> 0, moveTime |-> 0, infinite |-> FALSE, ponder |-> FALSE,
     searchMoves |-> <<>>]

\* go, with the value of think() dropped: the command always asks the main
\* loop to go on.
go_ignoring_think(uip0, root, thinkRet, isCxx11) ==
    LET parsed(l) ==
            IF l.hung THEN [hung |-> TRUE, ret |-> TRUE, events |-> <<>>]
            ELSE [hung |-> FALSE, ret |-> TRUE,
                  events |-> << <<"call", "think", l.p, thinkRet>> >>]
    IN  parsed(GoLoop(uip0, "", root, GoDefaults, isCxx11))

\* go: the arguments think() is called with, and the value it returns;
\* thinkRet is what think() returns (false if quit came while thinking).
\* The think event holds the arguments and the value returned.
go(uip0, root, thinkRet, isCxx11) ==
    LET parsed(l) ==
            IF l.hung THEN [hung |-> TRUE, ret |-> TRUE, events |-> <<>>]
            ELSE [hung |-> FALSE, ret |-> thinkRet,
                  events |-> << <<"call", "think",
                                  IF l.p.moveTime # 0
                                  THEN [l.p EXCEPT !.infinite = TRUE] ELSE l.p,
                                  thinkRet>> >>]
    IN  parsed(GoLoop(uip0, "", root, GoDefaults, isCxx11))

\* handle_command, the loop that prints the tokens of an unknown command.
RECURSIVE UnknownLoop(_, _, _)
UnknownLoop(uip, token, evs) ==
    LET read(r) == UnknownLoop(r.uip, r.val, Append(evs, <<"out", r.val>>))
    IN  IF uip.eof THEN evs ELSE read(ExtractString(uip, token))

\* engine_name() of misc.cpp
engine_name == "Stockfish"

\* handle_command taking every command for ucinewgame.
handle_command_always_new_game(cmd, root, opts, thinkRet, isCxx11) ==
    [ret |-> TRUE, hung |-> FALSE, root |-> from_fen(StartPosition),
     options |-> push_button(opts, "Clear Hash").options,
     events |-> << <<"call", "push_button", "Clear Hash">>,
                   <<"call", "init_piece_square_tables">>,
                   <<"call", "from_fen", StartPosition>> >>]

\* handle_command: the value returned, the new root position and options,
\* what was printed and called, and whether go() did not return.
handle_command(cmd, root, opts, thinkRet, isCxx11) ==
    LET same(evs) ==
            [ret |-> TRUE, hung |-> FALSE, root |-> root, options |-> opts,
             events |-> evs]
        went(g) ==
            [ret |-> g.ret, hung |-> g.hung, root |-> root, options |-> opts,
             events |-> g.events]
        newgame(b) ==
            [ret |-> TRUE, hung |-> FALSE, root |-> from_fen(StartPosition),
             options |-> b.options,
             events |-> << <<"call", "push_button", "Clear Hash">> >> \o b.events
                        \o << <<"call", "init_piece_square_tables">>,
                              <<"call", "from_fen", StartPosition>> >>]
        positioned(s) ==
            [ret |-> TRUE, hung |-> FALSE, root |-> s.root, options |-> opts,
             events |-> s.events]
        optioned(s) ==
            [ret |-> TRUE, hung |-> FALSE, root |-> root, options |-> s.options,
             events |-> s.events]
        dispatch(uip, token) ==
            IF token = "quit" THEN [same(<<>>) EXCEPT !.ret = FALSE]
            ELSE IF token = "go" THEN went(go(uip, root, thinkRet, isCxx11))
            ELSE IF token = "uci"
            THEN same(<< <<"out", "id name " \o engine_name>>,
                         <<"out", "id author Tord Romstad, Marco Costalba, Joona Kiiski">> >>
                      \o print_uci_options(opts) \o << <<"out", "uciok">> >>)
            ELSE IF token = "ucinewgame" THEN newgame(push_button(opts, "Clear Hash"))
            ELSE IF token = "isready" THEN same(<< <<"out", "readyok">> >>)
            ELSE IF token = "position" THEN positioned(set_position(uip, root))
            ELSE IF token = "setoption" THEN optioned(set_option(uip, opts))
            ELSE IF token = "d" THEN same(<< <<"call", "print">> >>)
            ELSE IF token = "flip"
            THEN [same(<< <<"call", "flipped_copy">> >>) EXCEPT !.root = flipped_copy(root)]
            ELSE IF token = "eval" THEN same(<< <<"call", "evaluate">> >>)
            ELSE IF token = "key" THEN same(<< <<"call", "get_key">> >>)
            ELSE same(UnknownLoop(uip, token, << <<"out", "Unknown command: " \o cmd>> >>))
        first(t) == dispatch(t.uip, t.val)
    IN  first(ExtractString(UCIInputParser(cmd), ""))

-----------------------------------------------------------------------------
(* tt.h: TTEntry. The 32-bit data word is a sequence of 32 bits, bit 0     *)
(* first, so that shifts and masks keep their width.                       *)

WordBits == 1..32

\* Bit i (from 0) of the non-negative int n.
RECURSIVE Bit(_, _)
Bit(n, i) == IF i = 0 THEN n % 2 ELSE Bit(n \div 2, i - 1)

\* The bits of a non-negative int.
ToBits(n) == [i \in WordBits |-> Bit(n, i - 1)]

\* w << k and w >> k on 32 bits.
Shl(w, k) == [i \in WordBits |-> IF i - k >= 1 THEN w[i - k] ELSE 0]

Shr(w, k) == [i \in WordBits |-> IF i + k <= 32 THEN w[i + k] ELSE 0]

BitOr(a, b) == [i \in WordBits |-> IF a[i] = 1 \/ b[i] = 1 THEN 1 ELSE 0]

BitAnd(a, b) == [i \in WordBits |-> IF a[i] = 1 /\ b[i] = 1 THEN 1 ELSE 0]

\* The number a word holds in its low n bits.
RECURSIVE LowBits(_, _)
LowBits(w, n) == IF n = 0 THEN 0 ELSE 2 * LowBits(Shr(w, 1), n - 1) + w[1]

\* The number a word stands for; the words read here are below 2^31.
ToInt(w) == LowBits(w, 31)

\* int16_t(x): x modulo 2^16, in -32768..32767.
int16_t(x) == ((x + 32768) % 65536) - 32768

\* TTEntry with the generation one bit lower, over the top bit of the type.
TTEntry_overlapping(k, v, t, d, m, generation) ==
    [key_   |-> k,
     data   |-> BitOr(BitOr(BitAnd(ToBits(m), ToBits(131071)), Shl(ToBits(t), 20)),
                      Shl(ToBits(generation), 22)),
     value_ |-> int16_t(v),
     depth_ |-> int16_t(d)]

\* TTEntry(k, v, t, d, m, generation)
TTEntry(k, v, t, d, m, generation) ==
    [key_   |-> k,
     data   |-> BitOr(BitOr(BitAnd(ToBits(m), ToBits(131071)), Shl(ToBits(t), 20)),
                      Shl(ToBits(generation), 23)),
     value_ |-> int16_t(v),
     depth_ |-> int16_t(d)]

TTEntry_key(e) == e.key_

TTEntry_depth(e) == e.depth_

TTEntry_move(e) == ToInt(BitAnd(e.data, ToBits(131071)))

TTEntry_value(e) == e.value_

TTEntry_type(e) == ToInt(BitAnd(Shr(e.data, 20), ToBits(7)))

TTEntry_generation(e) == ToInt(Shr(e.data, 23))

-----------------------------------------------------------------------------
(* The input lines                                                         *)

\* Most move tokens in one position command.
MaxMoves == 2

\* Most moves made on a root position before it is loaded again.
MaxPly == 4


\* A legal game from the initial position.
GameMoves == <<"e2e4", "e7e5", "g1f3", "g8f6">>

\* The move lists of position commands: the opening moves of the game; the
\* same followed by a token that is no move, or by a move that is not legal
\* there; and a token that is no move followed by a move.
MoveLists ==
    {SubSeq(GameMoves, 1, k) : k \in 0..MaxMoves}
    \cup {SubSeq(GameMoves, 1, k) \o <<bad>> :
             k \in 0..(MaxMoves - 1), bad \in {"zzzz", "e2e4"}}
    \cup {SubSeq(GameMoves, 1, k) \o <<"zzzz", GameMoves[k + 1]>> :
             k \in 0..(MaxMoves - 2)}

RECURSIVE JoinMoves(_)
JoinMoves(l) == IF l = <<>> THEN "" ELSE " " \o Head(l) \o JoinMoves(Tail(l))

\* What a position command loads.
LoadForms == {"position startpos", "position fen " \o KPKPosition, "position fen 8/8/8 w"}

PositionLines ==
    {p \o t : p \in LoadForms, t \in {"", " "}}
    \cup {p \o " moves" \o JoinMoves(l) \o t :
             p \in LoadForms, l \in MoveLists, t \in {"", " "}}
    \cup {"position", "position   startpos   moves   e2e4", "position moves g1f3",
          "position bogus moves zzzz"}

\* Lines every run may read.
CommonLines == {"quit", "uci", "isready", "ucinewgame", "go", ""}

MainLines ==
    {"  quit", "quit now", "quitx", "stop", "ponderhit", "d", "flip", "eval", "key", " ",
     "hello world ", "go infinite", "go movetime 200 ",
     "go wtime 1000 btime 900 winc 10 binc 10 movestogo 40 depth 6",
     "go wtime abc", "go searchmoves e2e4 zzzz", "go ponder nodes",
     "position startpos moves e2e4", "position fen " \o KPKPosition,
     "setoption name Clear Hash", "setoption"}

SpinLines ==
    {"setoption name Hash value " \o v :
        v \in {"64", "64 ", "5000", "99999999999", "-3", "abc"}}
    \cup {"setoption name Hash", "setoption name Hash value",
          "setoption name Minimum Split Depth value 5",
          "setoption   name  Minimum   Split Depth   value   7",
          "setoption name Minimum Split  value 5", "setoption name Nodes value 5"}

CheckLines ==
    {"setoption name Ponder value " \o v \o t :
        v \in {"true", "false", "1", "0", "2"}, t \in {"", " "}}
    \cup {"setoption name Ponder", "setoption name Ponder value",
          "setoption name Ponder value  true", "setoption name ponder value true",
          "setoption name UCI_Chess960 value true"}

ButtonLines ==
    {"setoption name Clear Hash", "setoption name  Clear   Hash", "setoption name Clear Hash ",
     "setoption name Clear Hash value 1", "setoption name Clear Hash value 0",
     "setoption name Clear Hash value true", "setoption name Clear Hash value false",
     "setoption name Clear Hash value 2", "setoption name Clear Hash value",
     "setoption name Clear", "setoption name Hash value 64"}

\* go commands: movetime and infinite in either order, alone, after
\* searchmoves, and after an argument that is not a number or is missing.
GoLines ==
    {"go movetime 200", "go movetime 200 infinite", "go infinite movetime 200",
     "go movetime 0", "go infinite movetime 0", "go infinite", "go ponder",
     "go depth 6 movetime 1", "go movetime", "go wtime", "go wtime 1000 btime",
     "go searchmoves e2e4 movetime 200", "go searchmoves g1f3 infinite",
     "go searchmoves e2e4 ", "go searchmoves e2e4 g1f3",
     "go movetime 200 searchmoves e2e4 g1f3", "go wtime abc movetime 200",
     "go depth x", "go nodes 99999999999 depth 3", "go movetime -5",
     "position startpos moves e2e4", "position fen " \o KPKPosition}

\* setoption commands for string and combo options: values of one word and
\* of two, no value, and names that are not registered.
StringLines ==
    {"setoption name Book File value book2.bin",
     "setoption name Book File value my book.bin",
     "setoption name Book File value",
     "setoption name Book File",
     "setoption name Search Log Filename value search log.txt",
     "setoption name King Safety Curve value Linear",
     "setoption name Book Files value book2.bin",
     "setoption name Nodes"}

\* Most moves of a long game.
MaxGamePly == 124

\* A long game sent four or two plies at a time: a position command without
\* startpos or fen goes on from the root position. The knights go out and
\* back; the pawn moves reset the 50 move counter.
LongGameLines ==
    {"position startpos", "position moves g1f3 g8f6 f3g1 f6g8",
     "position moves e2e4 e7e5"}

Lines(s) ==
    CommonLines \cup
    CASE s = "main" -> MainLines
      [] s = "longgame" -> LongGameLines
      [] s = "string" -> StringLines
      [] s = "go" -> GoLines
      [] s = "position" -> PositionLines
      [] s = "spin" -> SpinLines
      [] s = "check" -> CheckLines
      [] s = "button" -> ButtonLines
      [] OTHER -> {}

-----------------------------------------------------------------------------
(* The state machine of uci_main_loop                                      *)

\* No TTEntry is under test in the runs of the main loop.
NoEntry == [built |-> FALSE]

\* No table is in use in the runs of the main loop.
NoTable == [size |-> 0]

\* No file of a pawn bitboard is asked about.
NoFileTest == [asked |-> FALSE]

\* The state when uci_main_loop has loaded the initial position, after
\* init_uci_options.
InitSuite(s, cpuCounts, builds) ==
    /\ suite = s
    /\ cxx11 \in builds
    /\ loop = "running"
    /\ RootPosition = from_fen(StartPosition)
    /\ \E cpus \in cpuCounts, lhsFirst \in BOOLEAN :
          options = init_uci_options(cpus, lhsFirst)
    /\ command = ""
    /\ events = << <<"init">> >>
    /\ pushed = FALSE
    /\ valueSet = FALSE
    /\ tte = NoEntry
    /\ TT = NoTable
    /\ material = NoTable
    /\ fileTest = NoFileTest

IsCall(e, f) == Len(e) >= 2 /\ e[1] = "call" /\ e[2] = f

\* Some event of evs is a call of f whose first argument is a.
Called(evs, f, a) ==
    \E i \in 1..Len(evs) : IsCall(evs[i], f) /\ Len(evs[i]) >= 3 /\ evs[i][3] = a

\* The runs end where the root position has MaxPly moves; the runs of a long
\* game, in which the moves sent are legal, where it has MaxGamePly.
WithinBounds(s, root) ==
    IF s = "longgame"
    THEN Len(root.moves) <= MaxGamePly /\ MOVE_NONE \notin Played(root)
    ELSE Len(root.moves) <= MaxPly

\* One round of the do-while loop: getline delivers a line and
\* handle_command handles it.
ReadCommand ==
    /\ loop = "running"
    /\ \E line \in Lines(suite), thinkRet \in BOOLEAN :
         \E h \in {handle_command(line, RootPosition, options, thinkRet, cxx11)} :
         /\ thinkRet \/ (\E i \in 1..Len(h.events) : IsCall(h.events[i], "think"))
         /\ WithinBounds(suite, h.root)
         /\ command' = line
         /\ loop' = IF h.hung THEN "hung" ELSE IF h.ret THEN "running" ELSE "exited"
         /\ RootPosition' = h.root
         /\ options' = h.options
         /\ events' = h.events
         /\ pushed' = (pushed \/ Called(h.events, "push_button", "Clear Hash"))
         /\ valueSet' = (valueSet \/ Called(h.events, "set_option_value", "Clear Hash"))
    /\ UNCHANGED <<cxx11, suite, tte, TT, material, fileTest>>

\* One round of the do-while loop at the end of the input: getline fails
\* and the command becomes "quit".
ReadEOF ==
    /\ loop = "running"
    /\ \E h \in {handle_command("quit", RootPosition, options, TRUE, cxx11)} :
         /\ command' = "quit"
         /\ loop' = IF h.ret THEN "running" ELSE "exited"
         /\ RootPosition' = h.root
         /\ options' = h.options
         /\ events' = << <<"eof">> >> \o h.events
    /\ UNCHANGED <<pushed, valueSet, cxx11, suite, tte, TT, material, fileTest>>

\* The engine polls the button: button_was_pressed("Clear Hash").
Poll ==
    /\ loop = "running"
    /\ \E b \in {button_was_pressed(options, "Clear Hash", cxx11)} :
         /\ options' = b.options
         /\ events' = << <<"poll", "Clear Hash", b.ret>> >>
    /\ command' = ""
    /\ pushed' = FALSE
    /\ valueSet' = FALSE
    /\ UNCHANGED <<loop, RootPosition, cxx11, suite, tte, TT, material, fileTest>>

\* The main loop with the engine polling the button between commands.
Next == ReadCommand \/ ReadEOF \/ Poll

\* The main loop alone.
NextLoop == ReadCommand \/ ReadEOF

Init == InitSuite("main", {2, 8}, BOOLEAN)

Spec == Init /\ [][Next]_vars

InitPosition == InitSuite("position", {2}, {TRUE})

SpecPosition == InitPosition /\ [][NextLoop]_vars

InitSpin == InitSuite("spin", {2, 8}, BOOLEAN)

SpecSpin == InitSpin /\ [][NextLoop]_vars

InitCheck == InitSuite("check", {2}, BOOLEAN)

SpecCheck == InitCheck /\ [][NextLoop]_vars

InitButton == InitSuite("button", {2}, BOOLEAN)

SpecButton == InitButton /\ [][Next]_vars

InitGo == InitSuite("go", {2}, BOOLEAN)

SpecGo == InitGo /\ [][NextLoop]_vars

\* The names the engine asks the value of: options of each type, and two
\* names that are not registered.
ReadNames == {"Book File", "King Safety Curve", "Hash", "Ponder", "Clear Hash", "Nodes", ""}

\* The engine reads an option with get_option_value_string, _int and _bool.
GetOptionValue ==
    /\ loop = "running"
    /\ \E n \in ReadNames :
          events' = << <<"get", n, get_option_value_string(options, n),
                         get_option_value_int(options, n, cxx11),
                         get_option_value_bool(options, n, cxx11)>> >>
    /\ command' = ""
    /\ UNCHANGED <<loop, RootPosition, options, pushed, valueSet, cxx11, suite,
                   tte, TT, material, fileTest>>

\* The main loop with the engine polling the button and reading options
\* between commands.
NextString == ReadCommand \/ ReadEOF \/ Poll \/ GetOptionValue

InitString == InitSuite("string", {2}, BOOLEAN)

SpecString == InitString /\ [][NextString]_vars

InitLongGame == InitSuite("longgame", {2}, {TRUE})

SpecLongGame == InitLongGame /\ [][NextLoop]_vars

\* Most cores of the machines the engine is started on.
MaxCpus == 9

\* The engine started on machines of 1 to MaxCpus cores.
InitCpus == InitSuite("cpus", 1..MaxCpus, BOOLEAN)

SpecCpus == InitCpus /\ [][NextLoop]_vars

-----------------------------------------------------------------------------
(* The state machine for TTEntry: an entry is built from arguments drawn   *)
(* from the sets below and then read back.                                 *)

TTKeys == {0, 1, 20091231}

\* Values and depths: the limits of int16_t, and two numbers past them.
TTValues == {-32769, -32768, -1, 0, 1, 32767, 32768}

TTDepths == {-32768, 0, 7, 32767, 40000}

\* Value types: the three bits of the field, and 8, which needs a fourth.
TTTypes == 0..8

\* Moves: 17 bits, and 131072, which needs an 18th.
TTMoves == {0, 1, 4660, 65536, 131071, 131072}

\* Generations: the nine bits of the field.
TTGenerations == {0, 1, 255, 256, 511}

\* The main loop does not run while an entry is under test.
InitTT ==
    /\ suite = "tt"
    /\ TT = NoTable
    /\ material = NoTable
    /\ fileTest = NoFileTest
    /\ cxx11 = TRUE
    /\ loop = "exited"
    /\ RootPosition = from_fen(StartPosition)
    /\ options = init_uci_options(2, FALSE)
    /\ command = ""
    /\ events = << <<"init">> >>
    /\ pushed = FALSE
    /\ valueSet = FALSE
    /\ \E k \in TTKeys, v \in TTValues, t \in TTTypes, d \in TTDepths,
          m \in TTMoves, g \in TTGenerations :
         tte = [built |-> FALSE, k |-> k, v |-> v, t |-> t, d |-> d, m |-> m, g |-> g]

\* The constructor TTEntry(k, v, t, d, m, generation) runs.
Construct ==
    /\ suite = "tt"
    /\ ~tte.built
    /\ tte' = [built |-> TRUE, k |-> tte.k, v |-> tte.v, t |-> tte.t, d |-> tte.d,
               m |-> tte.m, g |-> tte.g,
               entry |-> TTEntry(tte.k, tte.v, tte.t, tte.d, tte.m, tte.g)]
    /\ UNCHANGED <<loop, RootPosition, options, command, events, pushed, valueSet,
                   cxx11, suite, TT, material, fileTest>>

NextTT == Construct

SpecTT == InitTT /\ [][NextTT]_vars

-----------------------------------------------------------------------------
(* The claims about uci_main_loop and handle_command.                      *)

\* The first word of a command line.
FirstToken(line) == ExtractString(UCIInputParser(line), "").val

\* think() was called while the last command was handled and returned b.
ThinkReturned(evs, b) ==
    \E i \in 1..Len(evs) : IsCall(evs[i], "think") /\ evs[i][4] = b

\* C1: the main loop has exited exactly when the last command handled was
\* quit (the end of the input is handled as quit) or a go whose search
\* returned false; every step of the program starts with the loop running,
\* so nothing is handled after the exit.
C1_ExitExactly ==
    /\ [](loop = "exited" <=>
            \/ FirstToken(command) = "quit"
            \/ FirstToken(command) = "go" /\ ThinkReturned(events, FALSE))
    /\ [][loop = "running"]_vars

\* C1, witness: the loop exited because the search of a go returned false.
C1_Witness ==
    /\ loop = "exited"
    /\ FirstToken(command) = "go"
    /\ ThinkReturned(events, FALSE)

-----------------------------------------------------------------------------
(* The claims about set_position. A position command is read as its words: *)
(* position, then startpos or fen and the FEN, then moves and the moves.   *)

\* The words of a command line.
Words(line) == Fields(line, 1)

\* Index of the first word "moves" of w from the second word on, 0 if none.
MovesIndex(w) ==
    IF \E i \in 2..Len(w) : w[i] = "moves"
    THEN CHOOSE i \in 2..Len(w) : w[i] = "moves" /\ \A j \in 2..(i - 1) : w[j] # "moves"
    ELSE 0

\* The move tokens of a position command.
MoveWords(w) == IF MovesIndex(w) = 0 THEN <<>> ELSE SubSeq(w, MovesIndex(w) + 1, Len(w))

\* The words of the FEN of a position fen command.
FenWords(w) == SubSeq(w, 3, IF MovesIndex(w) = 0 THEN Len(w) ELSE MovesIndex(w) - 1)

\* A well-formed FEN has six fields and is one of the positions whose legal
\* moves are known.
GoodFen(ws) == Len(ws) = 6 /\ FenCore(JoinMoves(ws)) \in {StartCore, KPKCore}

\* The position the moves of the command are played from.
LoadedPosition(w, root) ==
    IF w[2] = "startpos" THEN from_fen(StartPosition)
    ELSE IF w[2] = "fen" THEN from_fen(JoinMoves(FenWords(w)))
    ELSE root

\* Every move of ms is legal in the position reached by the moves before it.
RECURSIVE AllLegal(_, _)
AllLegal(pos, ms) ==
    \/ ms = <<>>
    \/ IsLegal(pos, Head(ms)) /\ AllLegal(do_move(pos, Head(ms)), Tail(ms))

\* The words are a position command with a malformed FEN or with a move
\* token that is no legal move in the position reached so far.
InvalidPositionWords(w, root) ==
    /\ Len(w) >= 2
    /\ w[1] = "position"
    /\ \/ w[2] = "fen" /\ ~GoodFen(FenWords(w))
       \/ ~AllLegal(LoadedPosition(w, root), MoveWords(w))

\* The words are position startpos or position fen FEN with a well-formed
\* FEN, followed or not by moves and legal moves.
GoodPositionWords(w) ==
    /\ Len(w) >= 2
    /\ w[1] = "position"
    /\ w[2] \in {"startpos", "fen"}
    /\ w[2] = "startpos" => (Len(w) = 2 \/ w[3] = "moves")
    /\ w[2] = "fen" => GoodFen(FenWords(w))
    /\ AllLegal(LoadedPosition(w, <<>>), MoveWords(w))

\* The number of calls of do_move among the events.
DoMoveCalls(evs) == Cardinality({i \in 1..Len(evs) : IsCall(evs[i], "do_move")})

\* C2: a position command with a malformed FEN or an illegal move token is
\* rejected with a diagnostic: the root position stays as it was and do_move
\* is never called with MOVE_NONE.
C2_InvalidRejected ==
    [][InvalidPositionWords(Words(command'), RootPosition) =>
          /\ RootPosition' = RootPosition
          /\ ~Called(events', "do_move", MOVE_NONE)
          /\ \E i \in 1..Len(events') : events'[i][1] = "out"]_vars

\* C3: after a well-formed position command with the moves m1 .. mk the root
\* position is the loaded position followed by exactly m1 .. mk, and do_move
\* was called k times, whatever white space separates or follows the words.
C3_ExactlyTheMoves ==
    [][GoodPositionWords(Words(command')) =>
          /\ RootPosition'.fen = LoadedPosition(Words(command'), RootPosition).fen
          /\ RootPosition'.moves = MoveWords(Words(command'))
          /\ DoMoveCalls(events') = Len(MoveWords(Words(command')))]_vars

-----------------------------------------------------------------------------
(* The claims about the options.                                           *)

\* The option of the map with the given type.
OptionsOfType(opts, t) == {n \in DOMAIN opts : opts[n].type = t}

\* C4: after setoption name N value true for a check option N,
\* get_option_value_bool(N) is true, and after value false it is false.
C4_CheckRoundTrip ==
    \A n \in OptionsOfType(options, "CHECK"), w \in {"true", "false"} :
        command = "setoption name " \o n \o " value " \o w =>
            get_option_value_bool(options, n, cxx11) = (w = "true")

\* The decimal text of an int above the smallest one.
IntText(x) == IF x < 0 THEN "-" \o stringify(0 - x) ELSE stringify(x)

\* The decimal integers given as values to spin options.
Decimals == {"64", "5000", "99999999999", "-3", "5", "7"}

\* The digits of a decimal integer give a value that fits an int.
FitsInt(v) ==
    ~Accumulate(v, IF CharAt(v, 1) = "-" THEN 2 ELSE 1, Len(v) + 1, 0).over

\* The words are setoption name N value V: the option named and the value.
IsSetOptionWords(w) ==
    Len(w) >= 5 /\ w[1] = "setoption" /\ w[2] = "name" /\ w[Len(w) - 1] = "value"

\* The name is rebuilt by joining its words with single spaces.
SetOptionName(w) == Tail(JoinMoves(SubSeq(w, 3, Len(w) - 2)))

SetOptionValue(w) == w[Len(w)]

\* The last command handled set or pushed the option n.
OptionWasSet(evs, n) ==
    Called(evs, "set_option_value", n) \/ Called(evs, "push_button", n)

\* After the command with the words w, which gives a value of vs to a spin
\* option, get_option_value_int returns that value.
SpinReadsBack(w, vs, opts, isCxx11) ==
    (/\ IsSetOptionWords(w)
     /\ SetOptionName(w) \in OptionsOfType(opts, "SPIN")
     /\ SetOptionValue(w) \in vs)
    => IntText(get_option_value_int(opts, SetOptionName(w), isCxx11)) = SetOptionValue(w)

\* The options whose stored value differs were set by the last command.
OnlySetOptionsChange(old, new, evs) ==
    \A n \in DOMAIN old : new[n].currentValue # old[n].currentValue => OptionWasSet(evs, n)

\* C5, as claimed: after setoption name N value V for a spin option N and a
\* decimal integer V, get_option_value_int(N) returns V, and this stays so
\* until the next setoption for N: the stored value changes with no other
\* command.
C5_SpinRoundTrip ==
    [][/\ \A w \in {Words(command')} : SpinReadsBack(w, Decimals, options', cxx11)
       /\ OnlySetOptionsChange(options, options', events')]_vars

\* C5, amended: the same for every decimal integer V that fits an int.
C5_SpinRoundTripOfInt ==
    [][/\ \A w \in {Words(command')} :
             SpinReadsBack(w, {d \in Decimals : FitsInt(d)}, options', cxx11)
       /\ OnlySetOptionsChange(options, options', events')]_vars

\* C5, witness: an option with a name of three words was set to 7 by a
\* command with extra white space, and 7 is read back.
C5_Witness ==
    /\ IsSetOptionWords(Words(command))
    /\ SetOptionName(Words(command)) = "Minimum Split Depth"
    /\ SetOptionValue(Words(command)) = "7"
    /\ command # "setoption name Minimum Split Depth value 7"
    /\ get_option_value_int(options, "Minimum Split Depth", cxx11) = 7

\* get_option_value_int of the spin option n lies within its declared range.
SpinInRange(opts, n, isCxx11) ==
    \A x \in {get_option_value_int(opts, n, isCxx11)} :
        opts[n].minValue <= x /\ x <= opts[n].maxValue

\* The value v, once stored for the option o, reads as an int outside the
\* declared range of o.
ReadsOutOfRange(o, v, isCxx11) ==
    \A x \in {ExtractInt(UCIInputParser(StoredValue(v)), 0, isCxx11).val} :
        x < o.minValue \/ o.maxValue < x

\* The last command stored for the option n a value that reads outside the
\* range of n (push_button stores "true").
StoredOutOfRange(evs, opts, n, isCxx11) ==
    \E i \in 1..Len(evs) :
        \/ /\ IsCall(evs[i], "set_option_value")
           /\ evs[i][3] = n
           /\ ReadsOutOfRange(opts[n], evs[i][4], isCxx11)
        \/ /\ IsCall(evs[i], "push_button")
           /\ evs[i][3] = n
           /\ ReadsOutOfRange(opts[n], "true", isCxx11)

-----------------------------------------------------------------------------
(* The claims about ucinewgame and uci.                                    *)

\* C7: after a ucinewgame command the Clear Hash button is left pressed, so
\* that the next button_was_pressed("Clear Hash") returns true, the
\* piece-square tables were initialised again, and the root position is the
\* start position, whatever it was before.
C7_NewGame ==
    FirstToken(command) = "ucinewgame" =>
        /\ button_was_pressed(options, "Clear Hash", cxx11).ret
        /\ \E i \in 1..Len(events) : IsCall(events[i], "init_piece_square_tables")
        /\ RootPosition = from_fen(StartPosition)

\* C7, witness: ucinewgame was handled, the button is pressed and the root
\* position is the start position with no move made.
C7_Witness ==
    /\ command = "ucinewgame"
    /\ loop = "running"
    /\ options["Clear Hash"].currentValue = "1"
    /\ RootPosition.fen = StartCore
    /\ RootPosition.moves = <<>>

\* The text of the lines printed while the last command was handled.
Printed(evs) == [i \in 1..Len(evs) |-> IF evs[i][1] = "out" THEN evs[i][2] ELSE ""]

StartsWith(str, prefix) ==
    Len(str) >= Len(prefix) /\ SubSeq(str, 1, Len(prefix)) = prefix

\* C8: in response to a uci command the engine prints the id name line, the
\* id author line, then one option line for each registered option and
\* nothing else but empty lines, and last uciok, which is printed once.
C8_UciReply ==
    FirstToken(command) = "uci" =>
        \A out \in {Printed(events)} :
            /\ Len(out) = Len(events)
            /\ Len(out) >= 3
            /\ StartsWith(out[1], "id name ")
            /\ StartsWith(out[2], "id author ")
            /\ out[Len(out)] = "uciok"
            /\ \A i \in 1..(Len(out) - 1) : out[i] # "uciok"
            /\ \A i \in 3..(Len(out) - 1) : out[i] = "" \/ StartsWith(out[i], "option name ")
            /\ \A n \in DOMAIN options :
                  Cardinality({i \in 3..(Len(out) - 1) :
                      StartsWith(out[i], "option name " \o n \o " type ")}) = 1
            /\ Cardinality({i \in 3..(Len(out) - 1) : StartsWith(out[i], "option name ")})
                  = Cardinality(DOMAIN options)

\* C8, witness: a uci command was answered, with the option lines of the
\* first and of the last option registered among the lines printed.
C8_Witness ==
    /\ command = "uci"
    /\ \E i \in 1..Len(events) :
          events[i] = <<"out", "option name Use Search Log type check default false">>
    /\ \E i \in 1..Len(events) :
          events[i] = <<"out", "option name UCI_Chess960 type check default false">>
    /\ events[Len(events)] = <<"out", "uciok">>

-----------------------------------------------------------------------------
(* The claims about the buttons.                                           *)

\* The last step was a poll of the button.
IsPoll(evs) == Len(evs) = 1 /\ evs[1][1] = "poll"

-----------------------------------------------------------------------------
(* The claims about TTEntry.                                               *)

\* The arguments each fit the field that stores them.
TTFits(e) ==
    /\ e.v \in -32768..32767
    /\ e.d \in -32768..32767
    /\ e.t \in 0..7
    /\ e.m \in 0..131071
    /\ e.g \in 0..511

\* C10: an entry built from arguments that fit their fields returns each of
\* them from its accessor, and in the data word the move is bits 0-16, the
\* type bits 20-22, the generation bits 23-31, and bits 17-19 are zero.
C10_PackRoundTrip ==
    (tte.built /\ TTFits(tte)) =>
        /\ TTEntry_key(tte.entry) = tte.k
        /\ TTEntry_value(tte.entry) = tte.v
        /\ TTEntry_type(tte.entry) = tte.t
        /\ TTEntry_depth(tte.entry) = tte.d
        /\ TTEntry_move(tte.entry) = tte.m
        /\ TTEntry_generation(tte.entry) = tte.g
        /\ \A i \in 1..17 : tte.entry.data[i] = Bit(tte.m, i - 1)
        /\ \A i \in 18..20 : tte.entry.data[i] = 0
        /\ \A i \in 21..23 : tte.entry.data[i] = Bit(tte.t, i - 21)
        /\ \A i \in 24..32 : tte.entry.data[i] = Bit(tte.g, i - 24)

\* C10, witness: an entry was built with the largest move, type and
\* generation and the lowest value, and every bit of its three fields is set.
C10_Witness ==
    /\ tte.built
    /\ TTFits(tte)
    /\ tte.m = 131071 /\ tte.t = 7 /\ tte.g = 511 /\ tte.v = -32768
    /\ \A i \in (1..17) \cup (21..32) : tte.entry.data[i] = 1
    /\ TTEntry_generation(tte.entry) = 511

-----------------------------------------------------------------------------
(* TranspositionTable (tt.h): the generation counter.                      *)

\* The nine-bit mask of the generation field of TTEntry, as a counter width.
uint9_t(x) == x % 512

\* uint8_t, the type of TranspositionTable::generation.
uint8_t(x) == x % 256

\* TranspositionTable::new_search: generation++.
new_search(tt) == [tt EXCEPT !.generation = uint8_t(tt.generation + 1)]

\* TranspositionTable::store: the entry written carries the generation of
\* the table.
store(tt, posKey, v, type, d, m) ==
    [tt EXCEPT !.stored = TRUE,
               !.entry = TTEntry(posKey, v, type, d, m, tt.generation)]

\* Most calls of new_search in one run.
MaxSearches == 260

\* The table after its constructor: generation 0 and nothing stored.
InitGeneration ==
    /\ suite = "generation"
    /\ TT = [size |-> 1, generation |-> 0, searches |-> 0, stored |-> FALSE,
             entry |-> TTEntry(0, 0, 0, 0, 0, 0)]
    /\ material = NoTable
    /\ fileTest = NoFileTest
    /\ tte = NoEntry
    /\ cxx11 = TRUE
    /\ loop = "exited"
    /\ RootPosition = from_fen(StartPosition)
    /\ options = init_uci_options(2, FALSE)
    /\ command = ""
    /\ events = << <<"init">> >>
    /\ pushed = FALSE
    /\ valueSet = FALSE

\* A search starts: new_search().
NewSearch ==
    /\ suite = "generation"
    /\ TT.searches < MaxSearches
    /\ TT' = [new_search(TT) EXCEPT !.searches = TT.searches + 1]
    /\ UNCHANGED <<loop, RootPosition, options, command, events, pushed, valueSet,
                   cxx11, suite, tte, material, fileTest>>

\* The search stores a result: store(posKey, v, type, d, m).
Store ==
    /\ suite = "generation"
    /\ TT' = store(TT, 20091231, -1, 1, 7, 4660)
    /\ UNCHANGED <<loop, RootPosition, options, command, events, pushed, valueSet,
                   cxx11, suite, tte, material, fileTest>>

NextGeneration == NewSearch \/ Store

SpecGeneration == InitGeneration /\ [][NextGeneration]_vars

\* C11, as claimed: new_search moves the generation to the next of 0..511,
\* and from 511 to 0.
C11_WrapsInNineBits ==
    [][TT'.searches = TT.searches + 1 =>
          TT'.generation = (TT.generation + 1) % 512]_vars

\* C11, amended: the generation is a uint8_t; new_search moves it to the next
\* of 0..255, and from 255 to 0, and every entry stored carries the
\* generation of the table, with the top bit of the nine-bit field at zero.
C11_WrapsInEightBits ==
    /\ [](TT.generation \in 0..255)
    /\ [](TT.stored => TTEntry_generation(TT.entry) \in 0..255)
    /\ [][/\ TT'.searches = TT.searches + 1 =>
                TT'.generation = (TT.generation + 1) % 256
          /\ TT'.entry # TT.entry =>
                TTEntry_generation(TT'.entry) = TT.generation]_vars

\* C11, witness: after 256 calls of new_search the generation is 0 again,
\* and the entry stored during the search before carries 255.
C11_Witness ==
    /\ TT.searches = 256
    /\ TT.generation = 0
    /\ TT.stored
    /\ TTEntry_generation(TT.entry) = 255

-----------------------------------------------------------------------------
(* Material (material.cpp). A position is what get_material_info reads of  *)
(* it: the number of pieces of each type of each colour. pos[c][pt] is     *)
(* piece_count(c, pt); each side has one king.                             *)

Colors == {"WHITE", "BLACK"}

PieceTypes == {"PAWN", "KNIGHT", "BISHOP", "ROOK", "QUEEN"}

opposite_color(c) == IF c = "WHITE" THEN "BLACK" ELSE "WHITE"

\* value.h
KnightValueMidgame == 817

BishopValueMidgame == 836

RookValueMidgame == 1270

QueenValueMidgame == 2521

piece_count(pos, c, pt) == pos[c][pt]

\* Position::non_pawn_material(c): st->npMaterial[c], the midgame values of
\* the knights, bishops, rooks and queens of c.
non_pawn_material(pos, c) ==
    pos[c]["KNIGHT"] * KnightValueMidgame + pos[c]["BISHOP"] * BishopValueMidgame
    + pos[c]["ROOK"] * RookValueMidgame + pos[c]["QUEEN"] * QueenValueMidgame

\* Position::get_material_key(): a hash of the piece counts. Distinct counts
\* get distinct keys here, none of them 0: the counts are the digits of the
\* key, a pawn digit below 9 and the others below 4.
SideKey(side) ==
    side["PAWN"] + 9 * (side["KNIGHT"] + 4 * (side["BISHOP"]
                         + 4 * (side["ROOK"] + 4 * side["QUEEN"])))

get_material_key(pos) == 1 + SideKey(pos["WHITE"]) + 2304 * SideKey(pos["BLACK"])

\* A board with kings only.
NoPieces == [pt \in PieceTypes |-> 0]

PieceOfLetter(ch) ==
    CASE ch = "P" -> "PAWN" [] ch = "N" -> "KNIGHT" [] ch = "B" -> "BISHOP"
      [] ch = "R" -> "ROOK" [] ch = "Q" -> "QUEEN"

\* EndgameFunctions::buildKey: the letters up to the second K are White's
\* pieces and the rest Black's; the key is the material key of that position.
RECURSIVE KeyCodePosition(_, _, _)
KeyCodePosition(keyCode, upcase, pos) ==
    IF keyCode = "" THEN pos
    ELSE IF Head(keyCode) = "K" THEN KeyCodePosition(Tail(keyCode), ~upcase, pos)
    ELSE KeyCodePosition(Tail(keyCode), upcase,
            [pos EXCEPT ![IF upcase THEN "WHITE" ELSE "BLACK"][PieceOfLetter(Head(keyCode))] = @ + 1])

buildKey(keyCode) ==
    get_material_key(KeyCodePosition(keyCode, FALSE, [c \in Colors |-> NoPieces]))

\* The key of king and knight against king.
KNNKMaterialKey_of_KNK == buildKey("KNK")

KNNKMaterialKey == buildKey("KNNK")

\* The key of the bare king against king and knight.
KKNNMaterialKey_of_KKN == buildKey("KKN")

KKNNMaterialKey == buildKey("KKNN")

NULL == "NULL"

\* The evaluation functions without the two for king and pawn against king.
EEFadds_without_KPK ==
    << <<"KBNK", "EvaluateKBNK">>,
       <<"KKBN", "EvaluateKKBN">>, <<"KRKP", "EvaluateKRKP">>, <<"KPKR", "EvaluateKPKR">>,
       <<"KRKB", "EvaluateKRKB">>, <<"KBKR", "EvaluateKBKR">>, <<"KRKN", "EvaluateKRKN">>,
       <<"KNKR", "EvaluateKNKR">>, <<"KQKR", "EvaluateKQKR">>, <<"KRKQ", "EvaluateKRKQ">>,
       <<"KBBKN", "EvaluateKBBKN">>, <<"KNKBB", "EvaluateKNKBB">> >>

\* EndgameFunctions::EndgameFunctions: the two maps, in the order of the
\* add calls. std::map::insert keeps the first value of a key.
EEFadds ==
    << <<"KPK", "EvaluateKPK">>, <<"KKP", "EvaluateKKP">>, <<"KBNK", "EvaluateKBNK">>,
       <<"KKBN", "EvaluateKKBN">>, <<"KRKP", "EvaluateKRKP">>, <<"KPKR", "EvaluateKPKR">>,
       <<"KRKB", "EvaluateKRKB">>, <<"KBKR", "EvaluateKBKR">>, <<"KRKN", "EvaluateKRKN">>,
       <<"KNKR", "EvaluateKNKR">>, <<"KQKR", "EvaluateKQKR">>, <<"KRKQ", "EvaluateKRKQ">>,
       <<"KBBKN", "EvaluateKBBKN">>, <<"KNKBB", "EvaluateKNKBB">> >>

ESFadds ==
    << <<"KNPK", "WHITE", "ScaleKNPK">>, <<"KKNP", "BLACK", "ScaleKKNP">>,
       <<"KRPKR", "WHITE", "ScaleKRPKR">>, <<"KRKRP", "BLACK", "ScaleKRKRP">>,
       <<"KBPKB", "WHITE", "ScaleKBPKB">>, <<"KBKBP", "BLACK", "ScaleKBKBP">>,
       <<"KBPPKB", "WHITE", "ScaleKBPPKB">>, <<"KBKBPP", "BLACK", "ScaleKBKBPP">>,
       <<"KBPKN", "WHITE", "ScaleKBPKN">>, <<"KNKBP", "BLACK", "ScaleKNKBP">>,
       <<"KRPPKRP", "WHITE", "ScaleKRPPKRP">>, <<"KRPKRPP", "BLACK", "ScaleKRPKRPP">>,
       <<"KRPPKRP", "WHITE", "ScaleKRPPKRP">>, <<"KRPKRPP", "BLACK", "ScaleKRPKRPP">> >>

\* An insert that adds the entry even when its key is in the map.
insert_always(map, e) == Append(map, e)

\* std::map::insert: the entry is added unless its key is in the map already.
\* A map is written as the list of its entries, each with its key first.
insert(map, e) ==
    IF \E i \in DOMAIN map : map[i][1] = e[1] THEN map ELSE Append(map, e)

\* EndgameFunctions::add, both overloads: the key is built from the code and
\* inserted with the rest of the arguments.
add(map, a) == insert(map, <<buildKey(a[1])>> \o Tail(a))

\* The map after the first n add calls of the constructor.
RECURSIVE AddCalls(_, _)
AddCalls(adds, n) ==
    IF n = 0 THEN <<>> ELSE add(AddCalls(adds, n - 1), adds[n])

EEFmap == AddCalls(EEFadds, Len(EEFadds))

ESFmap == AddCalls(ESFadds, Len(ESFadds))

\* std::map::find: the entry with the key; asked for only when there is one.
find(map, key) == map[CHOOSE i \in DOMAIN map : map[i][1] = key]

\* EndgameFunctions::getEEF
getEEF(key) ==
    IF \E i \in DOMAIN EEFmap : EEFmap[i][1] = key THEN find(EEFmap, key)[2] ELSE NULL

\* getESF, with the colour that was not registered.
getESF_opposite(key) ==
    IF \E i \in DOMAIN ESFmap : ESFmap[i][1] = key
    THEN [col |-> opposite_color(find(ESFmap, key)[2]), fun |-> find(ESFmap, key)[3]]
    ELSE [col |-> "WHITE", fun |-> NULL]

\* EndgameFunctions::getESF: the colour and the function, or NULL.
getESF(key) ==
    IF \E i \in DOMAIN ESFmap : ESFmap[i][1] = key
    THEN [col |-> find(ESFmap, key)[2], fun |-> find(ESFmap, key)[3]]
    ELSE [col |-> "WHITE", fun |-> NULL]

\* scale.h: the normal scale factor.
SCALE_FACTOR_NORMAL == 64

\* MaterialInfo::clear(): everything but the key.
clear(mi) ==
    [key |-> mi.key,
     evaluationFunction |-> NULL,
     scalingFunction |-> [c \in Colors |-> NULL],
     mgValue |-> 0,
     egValue |-> 0,
     factor |-> [c \in Colors |-> SCALE_FACTOR_NORMAL],
     spaceWeight |-> 0]

\* MaterialInfo::MaterialInfo(): key 0, and clear().
MaterialInfo == clear([key |-> 0])

\* assert(cond) at a line of material.cpp: the line is noted as reached, and
\* as failed when cond is false. The build defines NDEBUG, so that the
\* function goes on either way.
assert(r, line, cond) ==
    [r EXCEPT !.reached = @ \cup {line},
              !.failed = IF cond THEN @ ELSE @ \cup {line}]

\* King and bishop with pawns of one colour: the two tests for ScaleKBPK and
\* ScaleKKBP.
KBPKRule(pos, r) ==
    LET npW == non_pawn_material(pos, "WHITE")
        npB == non_pawn_material(pos, "BLACK")
        W == pos["WHITE"]
        B == pos["BLACK"]
        kbpk(x) ==
            IF npW = BishopValueMidgame /\ W["BISHOP"] = 1 /\ W["PAWN"] >= 1
            THEN [x EXCEPT !.mi.scalingFunction["WHITE"] = "ScaleKBPK"] ELSE x
        kkbp(x) ==
            IF npB = BishopValueMidgame /\ B["BISHOP"] = 1 /\ B["PAWN"] >= 1
            THEN [x EXCEPT !.mi.scalingFunction["BLACK"] = "ScaleKKBP"] ELSE x
    IN  kkbp(kbpk(r))

\* A queen against a rook and pawns: the test for ScaleKQKRP, else the one
\* for ScaleKRPKQ.
KQKRPRule(pos, r) ==
    LET npW == non_pawn_material(pos, "WHITE")
        npB == non_pawn_material(pos, "BLACK")
        W == pos["WHITE"]
        B == pos["BLACK"]
    IN  IF /\ W["PAWN"] = 0 /\ npW = QueenValueMidgame /\ W["QUEEN"] = 1
           /\ B["ROOK"] = 1 /\ B["PAWN"] >= 1
        THEN [r EXCEPT !.mi.scalingFunction["WHITE"] = "ScaleKQKRP"]
        ELSE IF /\ B["PAWN"] = 0 /\ npB = QueenValueMidgame /\ B["QUEEN"] = 1
                /\ W["ROOK"] = 1 /\ W["PAWN"] >= 1
        THEN [r EXCEPT !.mi.scalingFunction["BLACK"] = "ScaleKRPKQ"]
        ELSE r

\* The tests for ScaleKPsK, ScaleKKPs and ScaleKPKP made whatever pieces are
\* on the board.
KPsKRule_with_pieces(pos, r) ==
    LET W == pos["WHITE"]
        B == pos["BLACK"]
    IN  IF B["PAWN"] = 0
        THEN [assert(r, 370, W["PAWN"] >= 2) EXCEPT
                  !.mi.scalingFunction["WHITE"] = "ScaleKPsK"]
        ELSE IF W["PAWN"] = 0
        THEN [assert(r, 375, B["PAWN"] >= 2) EXCEPT
                  !.mi.scalingFunction["BLACK"] = "ScaleKKPs"]
        ELSE IF W["PAWN"] = 1 /\ B["PAWN"] = 1
        THEN [r EXCEPT !.mi.scalingFunction["WHITE"] = "ScaleKPKPw",
                       !.mi.scalingFunction["BLACK"] = "ScaleKPKPb"]
        ELSE r

\* Kings and pawns only: ScaleKPsK, ScaleKKPs, or ScaleKPKPw and ScaleKPKPb.
KPsKRule(pos, r) ==
    LET W == pos["WHITE"]
        B == pos["BLACK"]
    IN  IF non_pawn_material(pos, "WHITE") + non_pawn_material(pos, "BLACK") # 0 THEN r
        ELSE IF B["PAWN"] = 0
        THEN [assert(r, 370, W["PAWN"] >= 2) EXCEPT
                  !.mi.scalingFunction["WHITE"] = "ScaleKPsK"]
        ELSE IF W["PAWN"] = 0
        THEN [assert(r, 375, B["PAWN"] >= 2) EXCEPT
                  !.mi.scalingFunction["BLACK"] = "ScaleKKPs"]
        ELSE IF W["PAWN"] = 1 /\ B["PAWN"] = 1
        THEN [r EXCEPT !.mi.scalingFunction["WHITE"] = "ScaleKPKPw",
                       !.mi.scalingFunction["BLACK"] = "ScaleKPKPb"]
        ELSE r

\* The scaling functions chosen from the piece counts: the rules in the
\* order of the source. Line 342, the first of them, is noted as reached.
ScalingFunctions(pos, r) ==
    KPsKRule(pos, KQKRPRule(pos, KBPKRule(pos, [r EXCEPT !.reached = @ \cup {342}])))

\* The space weight, set whatever material is left.
SpaceWeight_always(pos, r) ==
    LET minorPieceCount == pos["WHITE"]["KNIGHT"] + pos["BLACK"]["KNIGHT"]
                           + pos["WHITE"]["BISHOP"] + pos["BLACK"]["BISHOP"]
    IN  [r EXCEPT !.mi.spaceWeight = minorPieceCount * minorPieceCount]

\* The space weight.
SpaceWeight(pos, r) ==
    LET minorPieceCount == pos["WHITE"]["KNIGHT"] + pos["BLACK"]["KNIGHT"]
                           + pos["WHITE"]["BISHOP"] + pos["BLACK"]["BISHOP"]
    IN  IF non_pawn_material(pos, "WHITE") + non_pawn_material(pos, "BLACK") >=
           2 * QueenValueMidgame + 4 * RookValueMidgame + 2 * KnightValueMidgame
        THEN [r EXCEPT !.mi.spaceWeight = minorPieceCount * minorPieceCount]
        ELSE r

\* The factor of c, with the bishop pair and the other cases doubled.
NoPawnsFactor_doubled(pos, c, old) ==
    IF /\ pos[c]["PAWN"] = 0
       /\ non_pawn_material(pos, c) - non_pawn_material(pos, opposite_color(c))
             <= BishopValueMidgame
    THEN IF \/ non_pawn_material(pos, c) = non_pawn_material(pos, opposite_color(c))
            \/ non_pawn_material(pos, c) < RookValueMidgame
         THEN 0
         ELSE CASE pos[c]["BISHOP"] = 2 -> 64
                [] pos[c]["BISHOP"] = 1 -> 24
                [] pos[c]["BISHOP"] = 0 -> 12
                [] OTHER -> old
    ELSE old

\* The factor of c after the first step of the loop body: no pawns makes it
\* difficult to win.
NoPawnsFactor(pos, c, old) ==
    IF /\ pos[c]["PAWN"] = 0
       /\ non_pawn_material(pos, c) - non_pawn_material(pos, opposite_color(c))
             <= BishopValueMidgame
    THEN IF \/ non_pawn_material(pos, c) = non_pawn_material(pos, opposite_color(c))
            \/ non_pawn_material(pos, c) < RookValueMidgame
         THEN 0
         ELSE CASE pos[c]["BISHOP"] = 2 -> 32
                [] pos[c]["BISHOP"] = 1 -> 12
                [] pos[c]["BISHOP"] = 0 -> 6
                [] OTHER -> old
    ELSE old

BishopPairMidgameBonus == 109

BishopPairEndgameBonus == 97

\* What one round of the loop adds to mgValue and to egValue, before the sign.
ImbalanceOf(side, bonus) ==
    (IF side["BISHOP"] >= 2 THEN bonus ELSE 0)
    + side["KNIGHT"] * (side["PAWN"] - 5) * 16
    - (IF side["ROOK"] >= 1 THEN (side["ROOK"] - 1) * 32 + side["QUEEN"] * 16 ELSE 0)

\* Evaluate the material balance: the loop over the colours and the two
\* assignments after it. Line 402, the head of the loop, is noted as reached.
MaterialBalance(pos, r) ==
    [r EXCEPT
        !.reached = @ \cup {402},
        !.mi.factor = [c \in Colors |-> NoPawnsFactor(pos, c, r.mi.factor[c])],
        !.mi.mgValue = int16_t(ImbalanceOf(pos["WHITE"], BishopPairMidgameBonus)
                               - ImbalanceOf(pos["BLACK"], BishopPairMidgameBonus)),
        !.mi.egValue = int16_t(ImbalanceOf(pos["WHITE"], BishopPairEndgameBonus)
                               - ImbalanceOf(pos["BLACK"], BishopPairEndgameBonus))]

\* mi->evaluationFunction = f, going on to the space weight and the material
\* balance.
SetEvaluationFunction_continue(pos, r, f) ==
    MaterialBalance(pos, SpaceWeight(pos, [r EXCEPT !.mi.evaluationFunction = f]))

\* mi->evaluationFunction = f; return mi;
SetEvaluationFunction(pos, r, f) == [r EXCEPT !.mi.evaluationFunction = f]

\* Neither side has a pawn, a rook or a queen.
MinorPiecesOnly(pos) ==
    \A c \in Colors : pos[c]["PAWN"] = 0 /\ pos[c]["ROOK"] = 0 /\ pos[c]["QUEEN"] = 0

\* From the look for a scaling function to the end of the function.
ScaleAndBalance(pos, key, r) ==
    IF getESF(key).fun # NULL
    THEN [r EXCEPT !.mi.scalingFunction[getESF(key).col] = getESF(key).fun]
    ELSE MaterialBalance(pos, SpaceWeight(pos, ScalingFunctions(pos, r)))

\* The minor piece endgame with no pawns: the two assertions, and
\* EvaluateKmmKm when each side has at most two minor pieces.
MinorPieceEndgame(pos, key, r) ==
    IF /\ pos["WHITE"]["BISHOP"] + pos["WHITE"]["KNIGHT"] <= 2
       /\ pos["BLACK"]["BISHOP"] + pos["BLACK"]["KNIGHT"] <= 2
    THEN SetEvaluationFunction(pos, r, "EvaluateKmmKm")
    ELSE ScaleAndBalance(pos, key, r)

\* get_material_info after a miss, on the cleared entry with its key set.
\* Line 285, the draw of two knights against the bare king, is noted as
\* reached.
ComputeMaterialInfo(pos, key, r) ==
    IF key = KNNKMaterialKey \/ key = KKNNMaterialKey
    THEN [r EXCEPT !.mi.factor = [c \in Colors |-> 0], !.reached = @ \cup {285}]
    ELSE IF getEEF(key) # NULL
    THEN SetEvaluationFunction(pos, r, getEEF(key))
    ELSE IF /\ non_pawn_material(pos, "BLACK") = 0
            /\ pos["BLACK"]["PAWN"] = 0
            /\ non_pawn_material(pos, "WHITE") >= RookValueMidgame
    THEN SetEvaluationFunction(pos, r, "EvaluateKXK")
    ELSE IF /\ non_pawn_material(pos, "WHITE") = 0
            /\ pos["WHITE"]["PAWN"] = 0
            /\ non_pawn_material(pos, "BLACK") >= RookValueMidgame
    THEN SetEvaluationFunction(pos, r, "EvaluateKKX")
    ELSE IF MinorPiecesOnly(pos)
    THEN MinorPieceEndgame(pos, key,
            assert(assert(r, 315, pos["WHITE"]["KNIGHT"] + pos["WHITE"]["BISHOP"] > 0),
                   316, pos["BLACK"]["KNIGHT"] + pos["BLACK"]["BISHOP"] > 0))
    ELSE ScaleAndBalance(pos, key, r)

\* a & b, for a and b not below 0.
RECURSIVE AndOfInts(_, _)
AndOfInts(a, b) ==
    IF a = 0 \/ b = 0 THEN 0
    ELSE (a % 2) * (b % 2) + 2 * AndOfInts(a \div 2, b \div 2)

\* key & (size - 1)
TableIndex(key, size) == AndOfInts(key, size - 1)

\* An entry is taken for the position's whenever its key is not 0.
IsHit_unkeyed(mi, key) == mi.key # 0

\* mi->key == key
IsHit(mi, key) == mi.key = key

\* MaterialInfoTable::get_material_info: the entries after the call, the
\* entry returned, and the assertions reached and failed on the way.
get_material_info(table, pos) ==
    LET miss(key, index, r) ==
            [size |-> table.size,
             entries |-> [table.entries EXCEPT ![index] = r.mi],
             pos |-> pos, mi |-> r.mi, computed |-> TRUE,
             reached |-> r.reached, failed |-> r.failed, calls |-> table.calls]
        lookup(key, index) ==
            IF IsHit(table.entries[index], key)
            THEN [size |-> table.size, entries |-> table.entries,
                  pos |-> pos, mi |-> table.entries[index], computed |-> FALSE,
                  reached |-> {}, failed |-> {}, calls |-> table.calls]
            ELSE miss(key, index,
                      ComputeMaterialInfo(pos, key,
                          [mi |-> [clear(table.entries[index]) EXCEPT !.key = key],
                           reached |-> {}, failed |-> {}]))
    IN  lookup(get_material_key(pos), TableIndex(get_material_key(pos), table.size))

\* MaterialInfoTable::MaterialInfoTable(numOfEntries)
MaterialInfoTable(numOfEntries) ==
    [size |-> numOfEntries,
     entries |-> [i \in 0..(numOfEntries - 1) |-> MaterialInfo],
     pos |-> [c \in Colors |-> NoPieces], mi |-> MaterialInfo, computed |-> FALSE,
     reached |-> {}, failed |-> {}, calls |-> 0]

-----------------------------------------------------------------------------
(* The state machines for the material table.                              *)

\* Most pawns of one colour in the positions looked up one by one.
MaxPawns == 2

KnightCounts == 0..2

BishopCounts == 0..3

RookCounts == 0..2

QueenCounts == 0..1

Sides ==
    {[PAWN |-> p, KNIGHT |-> n, BISHOP |-> b, ROOK |-> rk, QUEEN |-> q] :
        p \in 0..MaxPawns, n \in KnightCounts, b \in BishopCounts,
        rk \in RookCounts, q \in QueenCounts}

\* The positions looked up in a table that is used over and over: some with
\* an evaluation function, some with a scaling function, some with neither.
CachePositions ==
    {KeyCodePosition(code, FALSE, [c \in Colors |-> NoPieces]) :
        code \in {"KPK", "KPPK", "KNNK", "KRPKR", "KQK", "KNKP", "KBPKB", "KRRKQ"}}
    \cup {[c \in Colors |-> [PAWN |-> 8, KNIGHT |-> 2, BISHOP |-> 2, ROOK |-> 2, QUEEN |-> 1]]}

Positions(s) ==
    IF s = "material" THEN {[WHITE |-> w, BLACK |-> b] : w \in Sides, b \in Sides}
    ELSE CachePositions

UciIdle ==
    /\ tte = NoEntry
    /\ TT = NoTable
    /\ cxx11 = TRUE
    /\ loop = "exited"
    /\ RootPosition = from_fen(StartPosition)
    /\ options = init_uci_options(2, FALSE)
    /\ command = ""
    /\ events = << <<"init">> >>
    /\ pushed = FALSE
    /\ valueSet = FALSE

\* A table of one entry, for one lookup of each position.
InitMaterial ==
    /\ suite = "material"
    /\ material = MaterialInfoTable(1)
    /\ UciIdle
    /\ fileTest = NoFileTest

\* A table of 1, 2 or 4 entries that is used over and over.
InitCache ==
    /\ suite = "cache"
    /\ \E numOfEntries \in {1, 2, 4} : material = MaterialInfoTable(numOfEntries)
    /\ UciIdle
    /\ fileTest = NoFileTest

\* The evaluation asks for the material info of a position.
GetMaterialInfo ==
    /\ suite \in {"material", "cache"}
    /\ suite = "material" => material.calls = 0
    /\ \E pos \in Positions(suite) :
          material' = [get_material_info(material, pos) EXCEPT !.calls = 1]
    /\ UNCHANGED <<loop, RootPosition, options, command, events, pushed, valueSet,
                   cxx11, suite, tte, TT, fileTest>>

NextMaterial == GetMaterialInfo

SpecMaterial == InitMaterial /\ [][NextMaterial]_vars

SpecCache == InitCache /\ [][NextMaterial]_vars

-----------------------------------------------------------------------------
(* The claims about the material table.                                    *)

\* What get_material_info computes for pos in a table never used before.
FreshMaterialInfo(pos) == get_material_info(MaterialInfoTable(1), pos).mi

\* C12: every call of get_material_info returns an entry with the material
\* key of the position and the fields a fresh computation gives for it, a
\* hit included; and the entry is computed again exactly when the entry at
\* the index of the key holds another key.
C12_TransparentCache ==
    /\ [](material.calls = 1 =>
             /\ material.mi.key = get_material_key(material.pos)
             /\ material.mi = FreshMaterialInfo(material.pos)
             /\ \A i \in DOMAIN material.entries :
                   material.entries[i].key # 0 =>
                       TableIndex(material.entries[i].key, material.size) = i)
    /\ [][\A key \in {get_material_key(material'.pos)} :
             material'.computed =
                 (material.entries[TableIndex(key, material.size)].key # key)]_vars

\* C12, witness: a hit in a table of four entries of which another one holds
\* another position's info, and the entry returned has an evaluation function.
C12_Witness ==
    /\ material.size = 4
    /\ material.calls = 1
    /\ ~material.computed
    /\ material.mi.evaluationFunction = "EvaluateKPK"
    /\ \E i \in DOMAIN material.entries :
          material.entries[i].key \notin {0, material.mi.key}

\* C13: an entry with an evaluation function has no scaling function, and
\* its values, space weight and factors are those set by clear().
C13_EvaluatorOverrides ==
    (material.calls = 1 /\ material.mi.evaluationFunction # NULL) =>
        /\ \A c \in Colors : material.mi.scalingFunction[c] = NULL
        /\ material.mi.mgValue = clear(material.mi).mgValue
        /\ material.mi.egValue = clear(material.mi).egValue
        /\ material.mi.spaceWeight = clear(material.mi).spaceWeight
        /\ material.mi.factor = clear(material.mi).factor

\* C13, witness: EvaluateKXK was chosen for a side with the bishop pair, and
\* the bonus of the pair is not in mgValue.
C13_Witness ==
    /\ material.calls = 1
    /\ material.mi.evaluationFunction = "EvaluateKXK"
    /\ material.pos["WHITE"]["BISHOP"] = 2
    /\ material.mi.mgValue = 0

\* C14: both factors of every entry are within 0..64, and are 0, 6, 12, 32
\* or the normal factor.
C14_FactorValues ==
    material.calls = 1 =>
        \A c \in Colors :
            /\ material.mi.factor[c] \in 0..64
            /\ material.mi.factor[c] \in {0, 6, 12, 32, SCALE_FACTOR_NORMAL}

\* C14, witness: two bishops and a rook against rook and bishop, no pawns:
\* the factors are 32 and 12.
C14_Witness ==
    /\ material.calls = 1
    /\ material.mi.factor["WHITE"] = 32
    /\ material.mi.factor["BLACK"] = 12

\* C19: the two assertions of the minor piece endgame hold whenever they are
\* reached: each side has a knight or a bishop.
C19_MinorAssertionsHold ==
    material.calls = 1 => material.failed \cap {315, 316} = {}

\* C20: the assertions before ScaleKPsK and ScaleKKPs hold whenever they are
\* reached: with no piece but pawns and kings on the board and no pawn of
\* one colour, the other colour has two pawns or more; king against king
\* and king and pawn against king do not get there.
C20_PawnAssertionsHold ==
    material.calls = 1 =>
        /\ material.failed \cap {370, 375} = {}
        /\ 370 \in material.reached => material.pos["WHITE"]["PAWN"] >= 2
        /\ 375 \in material.reached => material.pos["BLACK"]["PAWN"] >= 2
        /\ (/\ non_pawn_material(material.pos, "WHITE") = 0
            /\ non_pawn_material(material.pos, "BLACK") = 0
            /\ material.pos["WHITE"]["PAWN"] + material.pos["BLACK"]["PAWN"] <= 1)
              => material.reached \cap {370, 375} = {}

\* C20, witness: two white pawns against the bare king reach the assertion
\* and ScaleKPsK is chosen.
C20_Witness ==
    /\ material.calls = 1
    /\ 370 \in material.reached
    /\ material.pos["WHITE"]["PAWN"] = 2
    /\ material.mi.scalingFunction["WHITE"] = "ScaleKPsK"

-----------------------------------------------------------------------------
(* Position::game_phase (position.h)                                       *)

PHASE_ENDGAME == 0

PHASE_MIDGAME == 128

MidgameLimit == 15713

EndgameLimit == 4428

\* game_phase with the ramp divided by the midgame limit.
game_phase_by_limit(npm) ==
    IF npm >= MidgameLimit THEN PHASE_MIDGAME
    ELSE IF npm <= EndgameLimit THEN PHASE_ENDGAME
    ELSE ((npm - EndgameLimit) * 128) \div MidgameLimit

\* Position::game_phase, for npm = non_pawn_material(WHITE) +
\* non_pawn_material(BLACK).
game_phase(npm) ==
    IF npm >= MidgameLimit THEN PHASE_MIDGAME
    ELSE IF npm <= EndgameLimit THEN PHASE_ENDGAME
    ELSE ((npm - EndgameLimit) * 128) \div (MidgameLimit - EndgameLimit)

\* The largest total of non-pawn material tried.
MaxNpm == 16000

\* A position with a total non-pawn material of npm, and one with one more.
InitPhase ==
    /\ suite = "phase"
    /\ \E npm \in 0..MaxNpm : material = [size |-> 0, npm |-> npm, evaluated |-> FALSE]
    /\ UciIdle
    /\ fileTest = NoFileTest

\* The evaluation asks for the game phase of both positions.
GamePhase ==
    /\ suite = "phase"
    /\ ~material.evaluated
    /\ material' = [size |-> 0, npm |-> material.npm, evaluated |-> TRUE,
                    phase |-> game_phase(material.npm),
                    above |-> game_phase(material.npm + 1)]
    /\ UNCHANGED <<loop, RootPosition, options, command, events, pushed, valueSet,
                   cxx11, suite, tte, TT, fileTest>>

NextPhase == GamePhase

SpecPhase == InitPhase /\ [][NextPhase]_vars

\* C15: game_phase is 0 up to 4428, 128 from 15713, and
\* floor((npm - 4428) * 128 / (15713 - 4428)) in between; it is within 0..128,
\* does not decrease when npm grows, and the product fits 32 bits.
C15_LinearRamp ==
    (suite = "phase" /\ material.evaluated) =>
        /\ material.npm <= 4428 => material.phase = 0
        /\ material.npm >= 15713 => material.phase = 128
        /\ (4428 < material.npm /\ material.npm < 15713) =>
              /\ material.phase * 11285 <= (material.npm - 4428) * 128
              /\ (material.npm - 4428) * 128 < (material.phase + 1) * 11285
              /\ material.npm - 4428 <= INT_MAX \div 128
        /\ material.phase \in 0..128
        /\ material.phase <= material.above

\* C15, witness: a phase on the ramp, where the quotient is rounded down:
\* (10000 - 4428) * 128 / 11285 is 63.2.
C15_Witness ==
    /\ suite = "phase"
    /\ material.evaluated
    /\ material.npm = 10000
    /\ material.phase = 63

-----------------------------------------------------------------------------
(* The claims about go.                                                    *)

\* Position::is_ok(): the position was loaded from a well-formed FEN and
\* every move made on it was a move, not MOVE_NONE.
is_ok(pos) == pos.fen \in {StartCore, KPKCore} /\ MOVE_NONE \notin Played(pos)

\* C17: whenever go calls think(), RootPosition.is_ok() holds, whatever
\* commands came before.
C17_RootIsOkAtThink ==
    (\E i \in 1..Len(events) : IsCall(events[i], "think")) => is_ok(RootPosition)

\* The arguments of the think() call of the last command, if it made one.
ThinkArgs(evs) == {evs[i][3] : i \in {i \in 1..Len(evs) : IsCall(evs[i], "think")}}

\* The text after the first movetime of the words w, "" when there is none.
MoveTimeWord(w) ==
    IF \E i \in 2..(Len(w) - 1) : w[i] = "movetime"
    THEN w[1 + CHOOSE i \in 2..(Len(w) - 1) :
                   w[i] = "movetime" /\ \A j \in 2..(i - 1) : w[j] # "movetime"]
    ELSE ""

\* C16: when the go command holds movetime N with N not 0, think() gets
\* infinite = true and moveTime = N; when it holds no movetime, or
\* movetime 0, think() gets infinite = true iff the command holds infinite.
C16_MoveTimeIsInfinite ==
    \A w \in {Words(command)} :
        (Len(w) >= 1 /\ w[1] = "go") =>
            \A p \in ThinkArgs(events) :
                /\ MoveTimeWord(w) \in {"200", "1", "-5"} =>
                      (p.infinite /\ IntText(p.moveTime) = MoveTimeWord(w))
                /\ MoveTimeWord(w) \in {"", "0"} =>
                      (p.infinite <=> \E i \in 2..Len(w) : w[i] = "infinite")

\* C18: a go command always comes to its end and calls think() once.
C18_GoCallsThinkOnce ==
    FirstToken(command) = "go" =>
        /\ loop # "hung"
        /\ Cardinality({i \in 1..Len(events) : IsCall(events[i], "think")}) = 1

\* C21: in every entry computed through the imbalance loop, a colour with no
\* pawns whose non-pawn material exceeds the opponent's by at most a bishop
\* has a factor below the normal one: 0 when the non-pawn material is equal
\* or the colour has less than a rook, otherwise 32, 12 or 6 for two, one or
\* no bishop.
C21_NoPawnsBelowNormal ==
    (material.calls = 1 /\ 402 \in material.reached) =>
        \A c \in Colors :
            \A npm \in {non_pawn_material(material.pos, c)} :
            \A opp \in {non_pawn_material(material.pos, opposite_color(c))} :
                (material.pos[c]["PAWN"] = 0 /\ npm - opp <= BishopValueMidgame) =>
                    /\ material.mi.factor[c] < SCALE_FACTOR_NORMAL
                    /\ (npm = opp \/ npm < RookValueMidgame) => material.mi.factor[c] = 0
                    /\ ~(npm = opp \/ npm < RookValueMidgame) =>
                          material.mi.factor[c] \in {32, 12, 6}

\* Two knights of colour c and nothing else but the kings.
TwoKnightsOnly(pos, c) ==
    /\ pos[c] = [NoPieces EXCEPT !["KNIGHT"] = 2]
    /\ pos[opposite_color(c)] = NoPieces

\* C22: the entry computed for two knights against the bare king, of either
\* colour, has both factors 0, no evaluation function, no scaling function
\* and no imbalance; and the draw at line 285 is reached for these two
\* configurations and for no other.
C22_TwoKnightsDraw ==
    material.calls = 1 =>
        /\ (285 \in material.reached) <=>
              (\E c \in Colors : TwoKnightsOnly(material.pos, c))
        /\ (\E c \in Colors : TwoKnightsOnly(material.pos, c)) =>
              /\ material.mi.factor = [c \in Colors |-> 0]
              /\ material.mi.evaluationFunction = NULL
              /\ material.mi.scalingFunction = [c \in Colors |-> NULL]
              /\ material.mi.mgValue = 0
              /\ material.mi.egValue = 0
              /\ material.reached = {285}

\* C22, witness: the entry of two black knights against the white king.
C22_Witness ==
    /\ material.calls = 1
    /\ TwoKnightsOnly(material.pos, "BLACK")
    /\ material.mi.key = KKNNMaterialKey
    /\ material.mi.factor["WHITE"] = 0
    /\ 285 \in material.reached

\* The codes registered with a scaling function.
ScalerCodes ==
    {"KNPK", "KKNP", "KRPKR", "KRKRP", "KBPKB", "KBKBP", "KBPPKB", "KBKBPP",
     "KBPKN", "KNKBP", "KRPPKRP", "KRPKRPP"}

\* The position of each registration of a scaling function, with the colour
\* and the function registered.
RegisteredScalers ==
    {[pos |-> KeyCodePosition(ESFadds[i][1], FALSE, [c \in Colors |-> NoPieces]),
      code |-> ESFadds[i][1], col |-> ESFadds[i][2], fun |-> ESFadds[i][3]] :
        i \in DOMAIN ESFadds}

\* The number of pieces and pawns of one side, the king left out.
PieceTotal(side) ==
    side["PAWN"] + side["KNIGHT"] + side["BISHOP"] + side["ROOK"] + side["QUEEN"]

\* C23: the codes registered with a scaling function are the twelve of the
\* list; the entry computed for the position of a registered code has the
\* registered function as the scaling function of the registered colour, and
\* none for the other colour; and the registered colour is WHITE exactly
\* when White, whose pieces stand before the second K of the code, has more
\* pieces than Black.
C23_ScalerForRegisteredColour ==
    /\ {s.code : s \in RegisteredScalers} = ScalerCodes
    /\ material.calls = 1 =>
          \A s \in RegisteredScalers :
              material.pos = s.pos =>
                  /\ s.fun # NULL
                  /\ material.mi.scalingFunction[s.col] = s.fun
                  /\ material.mi.scalingFunction[opposite_color(s.col)] = NULL
                  /\ (s.col = "WHITE") <=>
                        (PieceTotal(s.pos["WHITE"]) > PieceTotal(s.pos["BLACK"]))
                  /\ (s.col = "BLACK") <=>
                        (PieceTotal(s.pos["BLACK"]) > PieceTotal(s.pos["WHITE"]))

\* C23, witness: the entry of king and knight against king, bishop and
\* pawn has ScaleKNKBP for Black and nothing for White.
C23_Witness ==
    /\ material.calls = 1
    /\ material.pos = KeyCodePosition("KNKBP", FALSE, [c \in Colors |-> NoPieces])
    /\ material.mi.scalingFunction["BLACK"] = "ScaleKNKBP"
    /\ material.mi.scalingFunction["WHITE"] = NULL

\* The add calls without those that repeat the code of an earlier call.
RECURSIVE WithoutRepeats(_)
WithoutRepeats(adds) ==
    IF adds = <<>> THEN <<>>
    ELSE IF \E j \in 1..(Len(adds) - 1) : adds[j][1] = adds[Len(adds)][1]
    THEN WithoutRepeats(SubSeq(adds, 1, Len(adds) - 1))
    ELSE Append(WithoutRepeats(SubSeq(adds, 1, Len(adds) - 1)), adds[Len(adds)])

\* The n-th add call repeats the code of an earlier one.
IsRepeat(adds, n) == \E j \in 1..(n - 1) : adds[j][1] = adds[n][1]

\* The add calls leave the map they would leave with every code added once:
\* a call that repeats a code leaves the map as it was, a call with a new
\* code adds one entry, every entry is that of the first call with its code,
\* and there are as many entries as codes.
IdempotentAdds(adds) ==
    /\ \A n \in DOMAIN adds :
          AddCalls(adds, n) =
              IF IsRepeat(adds, n) THEN AddCalls(adds, n - 1)
              ELSE Append(AddCalls(adds, n - 1), <<buildKey(adds[n][1])>> \o Tail(adds[n]))
    /\ AddCalls(adds, Len(adds)) =
          AddCalls(WithoutRepeats(adds), Len(WithoutRepeats(adds)))
    /\ \A n \in DOMAIN adds :
          ~IsRepeat(adds, n) =>
              \E i \in DOMAIN AddCalls(adds, Len(adds)) :
                  AddCalls(adds, Len(adds))[i] = <<buildKey(adds[n][1])>> \o Tail(adds[n])
    /\ Len(AddCalls(adds, Len(adds))) = Cardinality({adds[n][1] : n \in DOMAIN adds})

EEFaddsIdempotent == IdempotentAdds(EEFadds) /\ EEFmap = AddCalls(EEFadds, Len(EEFadds))

ESFaddsIdempotent == IdempotentAdds(ESFadds) /\ ESFmap = AddCalls(ESFadds, Len(ESFadds))

\* The registrations of a scaling function whose code is added twice.
RepeatedScalers ==
    {s \in RegisteredScalers :
        \E n \in DOMAIN ESFadds : IsRepeat(ESFadds, n) /\ ESFadds[n][1] = s.code}

\* C24: the add calls of the constructor are idempotent inserts into EEFmap
\* and into ESFmap: the second add of KRPPKRP and of KRPKRPP changes
\* nothing, the first registration is the one kept and looked up, and each
\* map has one entry for each code.
C24_IdempotentInsert ==
    /\ EEFaddsIdempotent
    /\ ESFaddsIdempotent
    /\ {s.code : s \in RepeatedScalers} = {"KRPPKRP", "KRPKRPP"}
    /\ material.calls = 1 =>
          \A s \in RepeatedScalers :
              material.pos = s.pos =>
                  /\ material.mi.scalingFunction[s.col] = s.fun
                  /\ Len(SelectSeq(ESFmap, LAMBDA e : e[1] = material.mi.key)) = 1

\* C24, witness: the entry for king, rook and pawn against king, rook and
\* two pawns, a code that is added twice.
C24_Witness ==
    /\ material.calls = 1
    /\ material.pos = KeyCodePosition("KRPKRPP", FALSE, [c \in Colors |-> NoPieces])
    /\ material.mi.scalingFunction["BLACK"] = "ScaleKRPKRPP"
    /\ Len(SelectSeq(ESFadds, LAMBDA a : a[1] = "KRPKRPP")) = 2
    /\ Len(SelectSeq(ESFmap, LAMBDA e : e[1] = buildKey("KRPKRPP"))) = 1

-----------------------------------------------------------------------------
(* The claims about the option registry.                                   *)

\* The option lines among the lines printed, in the order they were printed.
OptionLines(evs) == SelectSeq(Printed(evs), LAMBDA l : StartsWith(l, "option name "))

\* C25: the options are those of load_defaults, their idx values go up
\* strictly in the order of the assignments of load_defaults, whichever side
\* of the assignments the build evaluates first, and the reply to uci has
\* one line for each option, in that order: Use Search Log first, before
\* Aggressiveness, and UCI_Chess960 last.
C25_PrintedInInsertionOrder ==
    /\ DOMAIN options = {Defaults[i].n : i \in DOMAIN Defaults}
    /\ \A i, j \in DOMAIN Defaults :
          i < j => options[Defaults[i].n].idx < options[Defaults[j].n].idx
    /\ FirstToken(command) = "uci" =>
          \A lines \in {OptionLines(events)} :
              /\ Len(lines) = Len(Defaults)
              /\ \A i \in DOMAIN Defaults :
                    StartsWith(lines[i], "option name " \o Defaults[i].n \o " type ")
              /\ StartsWith(lines[1], "option name Use Search Log type ")

\* C25, witness: a uci command was answered by a build that evaluates the
\* left side of the assignments first, so that the first idx is 1; the line
\* of Book File is the third option line.
C25_Witness ==
    /\ command = "uci"
    /\ options["Use Search Log"].idx = 1
    /\ OptionLines(events)[3] = "option name Book File type string default book.bin"
    /\ Len(OptionLines(events)) = Cardinality(DOMAIN options)

\* What init_uci_options leaves in Threads and in Minimum Split Depth on a
\* machine with cpus cores.
ThreadsAndSplit(cpus) ==
    <<stringify(IF cpus < 7 THEN cpus ELSE 7), IF cpus > 4 THEN "6" ELSE "4">>

\* init_uci_options leaves these values, as default and as current value,
\* for every number of cores.
InitValuesForEveryCount ==
    \A cpus \in 1..MaxCpus, lhsFirst \in BOOLEAN :
        \A o \in {init_uci_options(cpus, lhsFirst)} :
            /\ <<o["Threads"].defaultValue, o["Minimum Split Depth"].defaultValue>>
                  = ThreadsAndSplit(cpus)
            /\ <<o["Threads"].currentValue, o["Minimum Split Depth"].currentValue>>
                  = ThreadsAndSplit(cpus)

\* The main loop has handled no command yet.
JustStarted == events = << <<"init">> >>

\* C26: after init_uci_options, default and current value of Threads are the
\* smaller of the number of cores and 7, within 1 to 8, those of Minimum
\* Split Depth are 6 with more than 4 cores and 4 otherwise, within 4 to 7,
\* and every other option has its default as its current value; and the
\* defaults stay what init_uci_options made them.
C26_DefaultsAfterInit ==
    /\ InitValuesForEveryCount
    /\ \E cpus \in 1..MaxCpus :
          /\ <<options["Threads"].defaultValue,
               options["Minimum Split Depth"].defaultValue>> = ThreadsAndSplit(cpus)
          /\ cpus <= 7 => options["Threads"].defaultValue = stringify(cpus)
    /\ \A n \in {"Threads", "Minimum Split Depth"} :
          \A x \in {get_option_value_int([options EXCEPT ![n].currentValue =
                                              options[n].defaultValue], n, cxx11)} :
              /\ options[n].minValue <= x /\ x <= options[n].maxValue
              /\ stringify(x) = options[n].defaultValue
    /\ <<options["Threads"].minValue, options["Threads"].maxValue>> = <<1, 8>>
    /\ <<options["Minimum Split Depth"].minValue,
         options["Minimum Split Depth"].maxValue>> = <<4, 7>>
    /\ JustStarted =>
          \A n \in DOMAIN options : options[n].currentValue = options[n].defaultValue

\* C26, witness: a machine of five or six cores, just started: as many
\* threads as cores, which is not what load_defaults wrote, and a minimum
\* split depth of 6.
C26_Witness ==
    /\ JustStarted
    /\ options["Threads"].currentValue \in {"5", "6"}
    /\ options["Minimum Split Depth"].currentValue = "6"

\* Index of the first word "value" of w after the name, 0 if none.
ValueIndex(w) ==
    IF \E i \in 4..Len(w) : w[i] = "value"
    THEN CHOOSE i \in 4..Len(w) : w[i] = "value" /\ \A j \in 4..(i - 1) : w[j] # "value"
    ELSE 0

\* The words are setoption name N value V, with V of one word or more.
IsSetStringWords(w) ==
    /\ Len(w) >= 5 /\ w[1] = "setoption" /\ w[2] = "name"
    /\ ValueIndex(w) \in 4..(Len(w) - 1)

\* The name before the word value, and the rest of the line after it.
SetStringName(w) == Tail(JoinMoves(SubSeq(w, 3, ValueIndex(w) - 1)))

SetStringValue(w) == Tail(JoinMoves(SubSeq(w, ValueIndex(w) + 1, Len(w))))

\* C28: after setoption name N value V for a string or combo option N,
\* get_option_value_string(N) returns V, the whole rest of the line after
\* the word value.
C28_StringRoundTrip ==
    \A w \in {Words(command)} :
        (/\ IsSetStringWords(w)
         /\ SetStringName(w) \in OptionsOfType(options, "STRING")
                                   \cup OptionsOfType(options, "COMBO"))
        => get_option_value_string(options, SetStringName(w)) = SetStringValue(w)

\* Everything of an option but its current value.
Registered(o) == [o EXCEPT !.currentValue = ""]

\* The last command called f with an unregistered name, and the line that
\* reports it was printed.
ReportedUnknown(evs, opts, f) ==
    \A i \in 1..Len(evs) :
        (IsCall(evs[i], f) /\ evs[i][3] \notin DOMAIN opts) =>
            \E j \in 1..Len(evs) : evs[j] = <<"out", "No such option: " \o evs[i][3]>>

\* The last step made a call of f with an unregistered name.
CalledUnknown(evs, opts, f) ==
    \E i \in 1..Len(evs) : IsCall(evs[i], f) /\ evs[i][3] \notin DOMAIN opts

\* C30: no step adds or removes an option or changes anything of an option
\* but its current value; set_option_value and push_button with a name that
\* is not registered change no option and report the name; and
\* get_option_value_string, _int and _bool return the empty string, 0 and
\* false for a name that is not registered, and change nothing.
C30_RegistryIsFixed ==
    [][/\ DOMAIN options' = DOMAIN options
       /\ \A n \in DOMAIN options : Registered(options'[n]) = Registered(options[n])
       /\ \A f \in {"set_option_value", "push_button"} :
             /\ ReportedUnknown(events', options, f)
             /\ CalledUnknown(events', options, f) => options' = options
       /\ \A i \in 1..Len(events') :
             events'[i][1] = "get" =>
                /\ options' = options
                /\ events'[i][2] \notin DOMAIN options =>
                      events'[i] = <<"get", events'[i][2], "", 0, FALSE>>]_vars

\* C30, witness: a value was given to Book Files, a name that is not
\* registered: the name was reported, and there are as many options as
\* load_defaults wrote.
C30_Witness ==
    /\ command = "setoption name Book Files value book2.bin"
    /\ events[Len(events)] = <<"out", "No such option: Book Files">>
    /\ "Book Files" \notin DOMAIN options
    /\ Cardinality(DOMAIN options) = Len(Defaults)

\* The words are setoption name N, with no word value.
IsPushWords(w) ==
    /\ Len(w) >= 3 /\ w[1] = "setoption" /\ w[2] = "name"
    /\ \A i \in 3..Len(w) : w[i] # "value"

\* C29: a setoption name N command without a value changes the current
\* value of no option but a button named N: spin, check, combo and string
\* options keep theirs.
C29_OnlyButtonsPushed ==
    [][\A w \in {Words(command')} :
          IsPushWords(w) =>
              \A n \in DOMAIN options :
                  options'[n].currentValue # options[n].currentValue =>
                      /\ options[n].type = "BUTTON"
                      /\ n = Tail(JoinMoves(SubSeq(w, 3, Len(w))))]_vars

-----------------------------------------------------------------------------
(* The claim about the length of the game.                                 *)

\* position.h: maximum number of plies per game.
MaxGameLength == 220

\* C27: after every position command the game ply of the root position
\* leaves room for a search of depth 100 within MaxGameLength: it is at most
\* MaxGameLength - 100.
C27_GamePlyLeavesRoom ==
    FirstToken(command) = "position" =>
        /\ RootPosition.gamePly <= MaxGameLength - 100
        /\ RootPosition.gamePly + 100 <= MaxGameLength

-----------------------------------------------------------------------------
(* The claims about the commands that change nothing.                      *)

\* The first tokens of the commands that may change the root position or an
\* option, or end the loop.
ChangingCommands == {"quit", "go", "ucinewgame", "position", "setoption", "flip"}

\* How many of the lines printed while the last command was handled are text.
TimesPrinted(evs, text) == Cardinality({i \in 1..Len(evs) : evs[i] = <<"out", text>>})

\* C31: handling uci, isready, d, eval, key, an empty line, or a line whose
\* first token is no command (stop and ponderhit among them) leaves the
\* root position and the current value of every option as they were and the
\* loop running; isready prints readyok once.
C31_QueriesReadOnly ==
    [][\A t \in {FirstToken(command')} :
          (~IsPoll(events') /\ t \notin ChangingCommands) =>
              /\ RootPosition' = RootPosition
              /\ \A n \in DOMAIN options :
                    options'[n].currentValue = options[n].currentValue
              /\ DOMAIN options' = DOMAIN options
              /\ loop' = "running"
              /\ t = "isready" => TimesPrinted(events', "readyok") = 1
              /\ t # "isready" => TimesPrinted(events', "readyok") = 0]_vars

\* C31, witness: ponderhit came with no search running, after a move was
\* made on the root position and the button was pushed; both are as they
\* were, and the line was reported as an unknown command.
C31_Witness ==
    /\ command = "ponderhit"
    /\ loop = "running"
    /\ RootPosition.moves = <<"e2e4">>
    /\ options["Clear Hash"].currentValue = "1"
    /\ events[1] = <<"out", "Unknown command: ponderhit">>

-----------------------------------------------------------------------------
(* The claims about the two colours of the material table.                 *)

\* The position with the pieces of the two colours exchanged.
ColourSwapped(pos) == [c \in Colors |-> pos[opposite_color(c)]]

\* The code of a key code with the two sides exchanged: KBPKN gives KNKBP.
MirroredCode(code) ==
    LET second == CHOOSE i \in 2..Len(code) :
                      CharAt(code, i) = "K" /\ \A j \in 2..(i - 1) : CharAt(code, j) # "K"
    IN  SubSeq(code, second, Len(code)) \o SubSeq(code, 1, second - 1)

\* The function that does for the other colour what fun does for this one:
\* for a registered function the one registered for the mirrored code.
MirroredPairs ==
    {<<NULL, NULL>>, <<"EvaluateKmmKm", "EvaluateKmmKm">>,
     <<"EvaluateKXK", "EvaluateKKX">>, <<"EvaluateKKX", "EvaluateKXK">>,
     <<"ScaleKBPK", "ScaleKKBP">>, <<"ScaleKKBP", "ScaleKBPK">>,
     <<"ScaleKQKRP", "ScaleKRPKQ">>, <<"ScaleKRPKQ", "ScaleKQKRP">>,
     <<"ScaleKPsK", "ScaleKKPs">>, <<"ScaleKKPs", "ScaleKPsK">>,
     <<"ScaleKPKPw", "ScaleKPKPb">>, <<"ScaleKPKPb", "ScaleKPKPw">>}
    \cup {<<"Evaluate" \o EEFadds[i][1], "Evaluate" \o MirroredCode(EEFadds[i][1])>> :
             i \in DOMAIN EEFadds}
    \cup {<<"Scale" \o ESFadds[i][1], "Scale" \o MirroredCode(ESFadds[i][1])>> :
             i \in DOMAIN ESFadds}

Mirrored(fun) == (CHOOSE p \in MirroredPairs : p[1] = fun)[2]

\* The entry mi mirrors the entry sw of the colour-swapped position in its
\* functions, and, when the imbalance was computed, in its values.
MirrorsEntry(mi, sw, balanced) ==
    /\ sw.evaluationFunction = Mirrored(mi.evaluationFunction)
    /\ \A c \in Colors :
          sw.scalingFunction[c] = Mirrored(mi.scalingFunction[opposite_color(c)])
    /\ balanced =>
          /\ sw.mgValue = 0 - mi.mgValue
          /\ sw.egValue = 0 - mi.egValue
          /\ \A c \in Colors : sw.factor[c] = mi.factor[opposite_color(c)]
          /\ sw.spaceWeight = mi.spaceWeight

\* C32: the entry of the colour-swapped position mirrors the entry of the
\* position: the mirrored evaluation and scaling functions are chosen, and
\* when the imbalance is computed it is computed for the swapped position
\* too, with mgValue and egValue negated, the two factors exchanged and the
\* same space weight.
C32_ColourAntisymmetric ==
    material.calls = 1 =>
        \A sw \in {get_material_info(MaterialInfoTable(1), ColourSwapped(material.pos))} :
            /\ (402 \in sw.reached) <=> (402 \in material.reached)
            /\ MirrorsEntry(material.mi, sw.mi, 402 \in material.reached)

\* C32, witness: White has the bishop pair and no pawns against a rook and
\* a pawn: the imbalance is computed, mgValue is not 0 and the two factors
\* differ.
C32_Witness ==
    /\ material.calls = 1
    /\ 402 \in material.reached
    /\ material.mi.mgValue > 0
    /\ material.mi.factor["WHITE"] = 32
    /\ material.mi.factor["BLACK"] = SCALE_FACTOR_NORMAL
    /\ material.mi.scalingFunction = [c \in Colors |-> NULL]

\* A cleared entry for pos, before any generic rule is applied.
ClearedEntry(pos) ==
    [mi |-> [MaterialInfo EXCEPT !.key = get_material_key(pos)],
     reached |-> {}, failed |-> {}]

\* The colours to which each of the three groups of generic rules gives a
\* scaling function, when applied alone to a cleared entry.
RuleAssigns(pos) ==
    << {c \in Colors : KBPKRule(pos, ClearedEntry(pos)).mi.scalingFunction[c] # NULL},
       {c \in Colors : KQKRPRule(pos, ClearedEntry(pos)).mi.scalingFunction[c] # NULL},
       {c \in Colors : KPsKRule(pos, ClearedEntry(pos)).mi.scalingFunction[c] # NULL} >>

\* The scaling functions after the three groups of rules in the order p.
RulesInOrder(pos, p) ==
    LET apply(i, r) ==
            IF i = 1 THEN KBPKRule(pos, r)
            ELSE IF i = 2 THEN KQKRPRule(pos, r) ELSE KPsKRule(pos, r)
    IN  apply(p[3], apply(p[2], apply(p[1], ClearedEntry(pos)))).mi.scalingFunction

RuleOrders == {p \in [1..3 -> 1..3] : \A i, j \in 1..3 : i # j => p[i] # p[j]}

\* C33: in every entry that comes to the generic scaling rules, each colour
\* gets a scaling function from at most one group of rules, and the
\* functions of the entry are those the rules give in any order.
C33_RulesDoNotOverlap ==
    (material.calls = 1 /\ 342 \in material.reached) =>
        /\ \A a \in {RuleAssigns(material.pos)} :
              \A c \in Colors : Cardinality({i \in 1..3 : c \in a[i]}) <= 1
        /\ \A p \in RuleOrders :
              RulesInOrder(material.pos, p) = material.mi.scalingFunction

\* C33, witness: king, bishop and pawn against king, rook and pawn: the one
\* rule that applies gives White ScaleKBPK.
C33_Witness ==
    /\ material.calls = 1
    /\ 342 \in material.reached
    /\ material.mi.scalingFunction["WHITE"] = "ScaleKBPK"
    /\ material.mi.scalingFunction["BLACK"] = NULL
    /\ material.pos["BLACK"]["ROOK"] = 1

\* Slots of the searchMoves array of go.
SearchMovesSlots == 500

\* The words that name a parameter of go.
GoWords ==
    {"infinite", "ponder", "wtime", "btime", "winc", "binc", "movestogo",
     "depth", "nodes", "movetime", "searchmoves"}

\* Index of the first word "searchmoves" of w from the second word on, 0 if
\* none.
SearchMovesIndex(w) ==
    IF \E i \in 2..Len(w) : w[i] = "searchmoves"
    THEN CHOOSE i \in 2..Len(w) :
             w[i] = "searchmoves" /\ \A j \in 2..(i - 1) : w[j] # "searchmoves"
    ELSE 0

\* The words listed after searchmoves, up to the next parameter of go.
RECURSIVE ListedFrom(_, _)
ListedFrom(w, i) ==
    IF i > Len(w) \/ w[i] \in GoWords THEN <<>>
    ELSE <<w[i]>> \o ListedFrom(w, i + 1)

ListedMoves(w) ==
    IF SearchMovesIndex(w) = 0 THEN <<>> ELSE ListedFrom(w, SearchMovesIndex(w) + 1)

\* C34: the searchMoves array think() gets is ended by MOVE_NONE within its
\* 500 slots and holds before it, in order and each once, the moves listed
\* after searchmoves and nothing else: no entry when there is no searchmoves,
\* and no other parameter of go taken for a move.
C34_SearchMovesAsListed ==
    \A w \in {Words(command)} :
        (Len(w) >= 1 /\ w[1] = "go") =>
            \A p \in ThinkArgs(events) :
                /\ Len(p.searchMoves) < SearchMovesSlots
                /\ p.searchMoves =
                       [i \in 1..Len(ListedMoves(w)) |->
                           move_from_string(RootPosition, ListedMoves(w)[i])]

\* Knights and bishops of both colours.
MinorPieces(pos) ==
    pos["WHITE"]["KNIGHT"] + pos["BLACK"]["KNIGHT"]
    + pos["WHITE"]["BISHOP"] + pos["BLACK"]["BISHOP"]

\* Non-pawn material of both colours.
TotalNonPawn(pos) == non_pawn_material(pos, "WHITE") + non_pawn_material(pos, "BLACK")

\* C35 as stated: every entry that reaches the general computation has the
\* square of the number of minor pieces as its space weight.
C35_SpaceWeightIsSquare ==
    (material.calls = 1 /\ 342 \in material.reached) =>
        material.mi.spaceWeight = MinorPieces(material.pos) * MinorPieces(material.pos)

\* C35: an entry that reaches the general computation has the square of the
\* number of minor pieces as its space weight when the non-pawn material of
\* both colours is at least two queens, four rooks and two knights, and the
\* space weight 0 when it is less.
C35_SpaceWeightAboveThreshold ==
    (material.calls = 1 /\ 342 \in material.reached) =>
        material.mi.spaceWeight =
            IF TotalNonPawn(material.pos) >=
                   2 * QueenValueMidgame + 4 * RookValueMidgame + 2 * KnightValueMidgame
            THEN MinorPieces(material.pos) * MinorPieces(material.pos)
            ELSE 0

C35_Witness ==
    /\ material.calls = 1
    /\ 342 \in material.reached
    /\ TotalNonPawn(material.pos) >=
           2 * QueenValueMidgame + 4 * RookValueMidgame + 2 * KnightValueMidgame
    /\ MinorPieces(material.pos) = 2
    /\ material.mi.spaceWeight = 4

-----------------------------------------------------------------------------
(* Position::file_is_open and Position::file_is_half_open. A Bitboard is   *)
(* the set of the squares whose bits are set; squares are numbered from    *)
(* a1 = 0 along the ranks to h8 = 63.                                      *)

Files == 0..7

\* The squares of file f.
file_bb(f) == {s \in 0..63 : s % 8 = f}

\* file_is_half_open looking at the file to the right of f.
file_is_half_open_next_file(pawns, f) == (pawns \cap file_bb((f + 1) % 8)) = {}

file_is_open(pawns, f) == (pawns \cap file_bb(f)) = {}

file_is_half_open(pawns, f) == (pawns \cap file_bb(f)) = {}

\* Most pawns of a bitboard handed to the two functions.
MaxFilePawns == 2

\* The squares a pawn can stand on: the second to the seventh rank.
PawnSquares == 8..55

\* The bitboards of at most n pawns.
RECURSIVE BitboardsOf(_)
BitboardsOf(n) ==
    IF n = 0 THEN {{}}
    ELSE LET more(prev) == prev \cup {b \cup {s} : b \in prev, s \in PawnSquares}
         IN  more(BitboardsOf(n - 1))

PawnBitboards == BitboardsOf(MaxFilePawns)

\* The evaluation is about to ask about file f of the bitboard pawns.
InitFiles ==
    /\ suite = "files"
    /\ material = NoTable
    /\ UciIdle
    /\ \E pawns \in PawnBitboards, f \in Files :
          fileTest = [asked |-> TRUE, pawns |-> pawns, f |-> f, ret |-> {}]

\* name was called and returned value.
Returned(name, value) ==
    /\ suite = "files"
    /\ \A r \in fileTest.ret : r[1] # name
    /\ fileTest' = [fileTest EXCEPT !.ret = @ \cup {<<name, value>>}]
    /\ UNCHANGED <<loop, RootPosition, options, command, events, pushed, valueSet,
                   cxx11, suite, tte, TT, material>>

FileIsOpen == Returned("file_is_open", file_is_open(fileTest.pawns, fileTest.f))

FileIsHalfOpen ==
    Returned("file_is_half_open", file_is_half_open(fileTest.pawns, fileTest.f))

NextFiles == FileIsOpen \/ FileIsHalfOpen

SpecFiles == InitFiles /\ [][NextFiles]_vars

\* C36: file_is_open and file_is_half_open return the same value for the
\* same bitboard and file: true iff the bitboard has no square on the file.
C36_SameAnswer ==
    fileTest.asked =>
        /\ \A r \in fileTest.ret :
               r[2] <=> ~(\E s \in fileTest.pawns : s % 8 = fileTest.f)
        /\ \A r1, r2 \in fileTest.ret : r1[2] = r2[2]

C36_Witness ==
    /\ fileTest.asked
    /\ fileTest.ret = {<<"file_is_open", FALSE>>, <<"file_is_half_open", FALSE>>}
    /\ \E s \in fileTest.pawns : s % 8 = fileTest.f
    /\ \E s \in fileTest.pawns : s % 8 # fileTest.f

====
